---- MODULE Spec2Model ----
(***************************************************************************)
(* Payment service: the payment entity and its status state machine, the   *)
(* repository (in-memory Map mirrored to a JSON file), the service's       *)
(* createPayment / getPaymentById / updatePayment handlers and the         *)
(* background processing pipeline (processPaymentAsync).                   *)
(*                                                                         *)
(* The program is single-threaded JavaScript: a handler runs atomically up *)
(* to an await that waits on a timer or on file I/O; the code between two  *)
(* such awaits is one action.  Entities are shared by reference: findById  *)
(* hands out the object stored in the Map, so a mutation of the entity is  *)
(* at once a mutation of the stored payment.                               *)
(*                                                                         *)
(* Optional values (metadata?, processedAt?, failureReason?, description?, *)
(* a patch's status?) are sets: {} is undefined, {v} is the value v.       *)
(***************************************************************************)
EXTENDS Integers, FiniteSets, Sequences, TLC

\* --------------------------------------------------------------- bounds
MaxPayments == 2
MaxTracked == 1
MaxClock == 1
MaxInflight == 1
MaxListed == 3
MaxPage == 4
MaxRecords == 3

\* ------------------------------------------------------------ enumerations
PENDING == "pending"
PROCESSING == "processing"
COMPLETED == "completed"
FAILED == "failed"
CANCELLED == "cancelled"
REFUNDED == "refunded"

PaymentStatus == {PENDING, PROCESSING, COMPLETED, FAILED, CANCELLED, REFUNDED}

CREDIT_CARD == "credit_card"
DEBIT_CARD == "debit_card"

Ids == 1..MaxListed
\* ids a request may name: 0 is an id no payment ever has
RequestIds == 0..MaxPayments

\* ------------------------------------------------------------------ inputs
\* bodies of POST /payments
CreateDtos ==
  { [amount |-> 500, currency |-> "USD", paymentMethod |-> DEBIT_CARD,
     customerId |-> "c1", description |-> {"Test payment"}, metadata |-> {}],
    [amount |-> 20000, currency |-> "EUR", paymentMethod |-> CREDIT_CARD,
     customerId |-> "c2", description |-> {}, metadata |-> {[orderId |-> "o1"]}] }

\* bodies of PUT /payments/:id
UpdateDtos ==
  [status : {{}} \cup {{s} : s \in PaymentStatus},
   metadata : {{}, {[note |-> "n1"]}},
   failureReason : {{}, {"Manual failure"}}]

\* the requests of the several-payments scenario: one body, status patches
StoreCreateDtos == {d \in CreateDtos : d.customerId = "c1"}
StoreUpdateDtos ==
  {d \in UpdateDtos : d.metadata = {} /\ d.failureReason = {}}

\* the requests of the metadata scenario: patches that carry metadata alone,
\* on fresh keys and on keys the payment already has
MetaUpdateDtos ==
  [status : {{}},
   metadata : {{[a |-> "1"]}, {[b |-> "2"]}, {[a |-> "2", orderId |-> "o9"]}},
   failureReason : {{}}]

\* the requests of the interleaving scenario: the metadata patches, one of
\* them on a key the pipeline writes as well
MergeUpdateDtos ==
  MetaUpdateDtos \cup
    [status : {{}}, metadata : {{[transactionId |-> "t0"]}},
     failureReason : {{}}]

\* the requests of the listing scenario: bodies of POST /payments that differ
\* in every sort key, two of them with the same amount
ListCreateDtos ==
  { [amount |-> 300, currency |-> "USD", paymentMethod |-> CREDIT_CARD,
     customerId |-> "c1", description |-> {}, metadata |-> {}],
    [amount |-> 100, currency |-> "EUR", paymentMethod |-> DEBIT_CARD,
     customerId |-> "c2", description |-> {}, metadata |-> {}],
    [amount |-> 200, currency |-> "EUR", paymentMethod |-> CREDIT_CARD,
     customerId |-> "c1", description |-> {}, metadata |-> {}],
    [amount |-> 100, currency |-> "USD", paymentMethod |-> DEBIT_CARD,
     customerId |-> "c1", description |-> {}, metadata |-> {}] }

\* the status patches of the listing scenario
ListUpdateDtos ==
  {d \in UpdateDtos :
     d.status = {CANCELLED} /\ d.metadata = {} /\ d.failureReason = {}}

\* the requests of the failure-rate scenario: amounts at and above the
\* threshold, by either payment method
RateCreateDtos ==
  [amount : {10000, 10001}, currency : {"USD"},
   paymentMethod : {CREDIT_CARD, DEBIT_CARD}, customerId : {"c1"},
   description : {{}}, metadata : {{[orderId |-> "o1"]}}]

\* query strings of GET /payments
Pages == 1..MaxPage
Limits == {1, 2, 10}
SortBys ==
  {{}} \cup {{k} : k \in {"amount", "status", "customerId", "paymentMethod",
                          "currency", "createdAt", "updatedAt", "bogus"}}
SortOrders == {{}, {"asc"}, {"desc"}}

QueryDtos ==
  [page : Pages, limit : Limits, sortBy : SortBys, sortOrder : SortOrders,
   customerId : {{}, {"c1"}, {"c2"}},
   status : {{}, {PENDING}, {PROCESSING}, {CANCELLED}}]

\* the query strings sent in the listing scenario
ListQueryDtos ==
  {q \in QueryDtos :
     /\ q.page \in {1, 2}
     /\ q.limit \in {1, 10}
     /\ q.sortBy \in {{}, {"amount"}}
     /\ q.sortOrder \in {{}, {"asc"}}
     /\ q.customerId \in {{}, {"c1"}}
     /\ q.status \in {{}, {PENDING}}}

\* values of Math.random() * 100: on either side of each failure rate
Draws == {5, 9, 10, 14, 15, 17, 19, 20, 24, 25, 60}

\* values of Math.floor(Math.random() * errorReasons.length) + 1
ReasonDraws == {1, 6}

\* ------------------------------------------------------------------- state
VARIABLES
  payments,      \* PaymentRepository.payments: id -> entity
  now,           \* the wall clock new Date() reads
  pc,            \* per id: where createPayment / processPaymentAsync stands;
                 \* under 0, in a process started on a file, where
                 \* initializeStorage stands, and in a process whose
                 \* cleanup() calls are remembered, the pipelines that
                 \* were under way at such a call
  activeTimers,  \* PaymentService.activeTimers, a timer named by its pipeline
  inflight,      \* fs.writeFile calls not yet completed, and the
                 \* fs.readFile of loadFromFile with the data it will give
  file           \* data/payments.json: "none", or the snapshot it holds is
                 \* "fresh" (taken since the last mutation) or "stale", or
                 \* "corrupt" when a failed write left it cut short

vars == <<payments, now, pc, activeTimers, inflight, file>>

\* ------------------------------------------------------------------ entity
\* new PaymentEntity(partial) where partial carries neither timestamp;
\* t1 and t2 are the two new Date() reads
PaymentEntity(partial, t1, t2) ==
  [id |-> partial.id,
   amount |-> partial.amount,
   currency |-> partial.currency,
   paymentMethod |-> partial.paymentMethod,
   status |-> partial.status,
   customerId |-> partial.customerId,
   description |-> partial.description,
   metadata |-> partial.metadata,
   createdAt |-> t1,
   updatedAt |-> t2,
   processedAt |-> {},
   failureReason |-> {}]

\* a string is truthy unless it is empty
Truthy(opt) == opt # {} /\ opt # {""}

\* updateStatus that keeps processedAt on COMPLETED and FAILED payments only
updateStatusClearing(e, status, failureReason, t1, t2) ==
  [e EXCEPT
     !.status = status,
     !.updatedAt = t1,
     !.processedAt = IF status = COMPLETED \/ status = FAILED THEN {t2} ELSE {},
     !.failureReason = IF Truthy(failureReason) THEN failureReason ELSE @]

\* updateStatus that assigns failureReason whether or not one is given
updateStatusAssigningReason(e, status, failureReason, t1, t2) ==
  [e EXCEPT
     !.status = status,
     !.updatedAt = t1,
     !.processedAt = IF status = COMPLETED \/ status = FAILED THEN {t2} ELSE @,
     !.failureReason = failureReason]

\* updateStatus that stamps processedAt on COMPLETED alone
updateStatusCompletedOnly(e, status, failureReason, t1, t2) ==
  [e EXCEPT
     !.status = status,
     !.updatedAt = t1,
     !.processedAt = IF status = COMPLETED THEN {t2} ELSE @,
     !.failureReason = IF Truthy(failureReason) THEN failureReason ELSE @]

\* PaymentEntity.updateStatus; t1 and t2 are its two new Date() reads
updateStatus(e, status, failureReason, t1, t2) ==
  [e EXCEPT
     !.status = status,
     !.updatedAt = t1,
     !.processedAt = IF status = COMPLETED \/ status = FAILED THEN {t2} ELSE @,
     !.failureReason = IF Truthy(failureReason) THEN failureReason ELSE @]

\* { ...a, ...b } on maps, undefined spreading as nothing
Spread(a, b) ==
  [k \in (DOMAIN a) \cup (DOMAIN b) |-> IF k \in DOMAIN b THEN b[k] ELSE a[k]]

EmptyMap == [k \in {} |-> k]

MapOf(opt) == IF opt = {} THEN EmptyMap ELSE CHOOSE m \in opt : TRUE

\* updateMetadata that leaves updatedAt alone
updateMetadataSilent(e, metadata, t) ==
  [e EXCEPT !.metadata = {Spread(MapOf(@), metadata)}]

\* updateMetadata that puts the update in place of the old metadata
updateMetadataReplacing(e, metadata, t) ==
  [e EXCEPT
     !.metadata = {metadata},
     !.updatedAt = t]

\* PaymentEntity.updateMetadata; t is its new Date() read
updateMetadata(e, metadata, t) ==
  [e EXCEPT
     !.metadata = {Spread(MapOf(@), metadata)},
     !.updatedAt = t]

\* ----------------------------------------------------------------- service
\* PaymentService.isValidStatusTransition
validTransitions(currentStatus) ==
  CASE currentStatus = PENDING -> {PROCESSING, CANCELLED}
    [] currentStatus = PROCESSING -> {COMPLETED, FAILED}
    [] currentStatus = COMPLETED -> {REFUNDED}
    [] currentStatus = FAILED -> {PENDING}
    [] currentStatus = CANCELLED -> {}
    [] currentStatus = REFUNDED -> {}

\* a check that lets a status through to itself
isValidStatusTransitionOrSame(currentStatus, newStatus) ==
  newStatus = currentStatus \/ newStatus \in validTransitions(currentStatus)

isValidStatusTransition(currentStatus, newStatus) ==
  newStatus \in validTransitions(currentStatus)

\* a failure rate whose surcharge starts at the threshold amount
getFailureRateFromThreshold(payment) ==
  LET base == 10
      byAmount == IF payment.amount >= 10000 THEN base + 10 ELSE base
      byMethod == IF payment.paymentMethod = CREDIT_CARD
                  THEN byAmount + 5 ELSE byAmount
  IN IF byMethod < 50 THEN byMethod ELSE 50

\* PaymentService.getFailureRate, in hundredths
getFailureRate(payment) ==
  LET base == 10
      byAmount == IF payment.amount > 10000 THEN base + 10 ELSE base
      byMethod == IF payment.paymentMethod = CREDIT_CARD
                  THEN byAmount + 5 ELSE byAmount
  IN IF byMethod < 50 THEN byMethod ELSE 50

errorReasons ==
  <<"Insufficient funds", "Card declined", "Invalid card number",
    "Expired card", "Network timeout", "Fraud detection">>

\* an id generator that hands out the same id again
uuidv4Colliding == {1}

\* uuidv4(): an id that no stored payment has and no record has in a file
\* still being read; the least of them, none once the ids are used up
uuidv4 ==
  LET reads == {w \in inflight : w.owner = "load"}
      inFile(w) == {w.data.records[i].id :
                      i \in {j \in DOMAIN w.data.records :
                               "id" \in DOMAIN w.data.records[j]}}
      free == (Ids \ DOMAIN payments) \ UNION {inFile(w) : w \in reads}
  IN {id \in free : \A other \in free : id <= other}

\* ---------------------------------------------------------------- repository
\* a Map.set that copies the status of the payment it stores to the others
MapSetSpilling(map, payment) ==
  [i \in (DOMAIN map) \cup {payment.id} |->
     IF i = payment.id THEN payment
     ELSE [map[i] EXCEPT !.status = payment.status]]

\* Map.set(payment.id, payment)
MapSet(map, payment) ==
  [i \in (DOMAIN map) \cup {payment.id} |->
     IF i = payment.id THEN payment ELSE map[i]]

\* a lookup that falls back on some stored payment
findByIdOrAny(id) ==
  IF id \in DOMAIN payments THEN {payments[id]}
  ELSE IF DOMAIN payments # {}
       THEN {payments[CHOOSE i \in DOMAIN payments : TRUE]}
       ELSE {}

\* PaymentRepository.findById: {} is null
findById(id) == IF id \in DOMAIN payments THEN {payments[id]} ELSE {}

\* the writes in flight and the file once the collection has been mutated
Outdated(writes) == {[w EXCEPT !.fresh = FALSE] : w \in writes}

Slots(owner) == IF owner = "update" THEN 1..MaxInflight ELSE {1}

FreeSlots(owner, id) ==
  {k \in Slots(owner) :
     \A w \in inflight : ~(w.owner = owner /\ w.id = id /\ w.slot = k)}

\* PaymentRepository.update / create up to the await in saveToFile: the
\* collection now differs from every earlier snapshot, a new snapshot is
\* taken and fs.writeFile is started on behalf of owner
saveToFile(owner, id) ==
  /\ FreeSlots(owner, id) # {}
  /\ LET k == CHOOSE k \in FreeSlots(owner, id) :
                 \A j \in FreeSlots(owner, id) : k <= j
     IN inflight' = (IF payments' = payments THEN inflight
                     ELSE Outdated(inflight)) \cup
                      {[owner |-> owner, id |-> id, slot |-> k, fresh |-> TRUE]}
  /\ file' = IF file \in {"none", "corrupt"} \/ payments' = payments
             THEN file ELSE "stale"

\* fs.writeFile for write w completes
writeFileDone(w) ==
  /\ inflight' = inflight \ {w}
  /\ file' = IF w.fresh THEN "fresh" ELSE "stale"

WritesOf(owner, id) == {w \in inflight : w.owner = owner /\ w.id = id}

\* non-decreasing clock reads from the current instant on
Reads2 == {r \in (now..MaxClock) \X (now..MaxClock) : r[1] <= r[2]}
Reads3 == {r \in (now..MaxClock) \X (now..MaxClock) \X (now..MaxClock) :
             r[1] <= r[2] /\ r[2] <= r[3]}

\* ------------------------------------------------------------------ queries
\* PaymentEntity.toJSON
toJSON(e) ==
  [id |-> e.id,
   amount |-> e.amount,
   currency |-> e.currency,
   paymentMethod |-> e.paymentMethod,
   status |-> e.status,
   customerId |-> e.customerId,
   description |-> e.description,
   metadata |-> e.metadata,
   createdAt |-> e.createdAt,
   updatedAt |-> e.updatedAt,
   processedAt |-> e.processedAt,
   failureReason |-> e.failureReason]

\* Array.from(this.payments.values()): a Map iterates in insertion order, and
\* the ids handed out are 1, 2, ... in the order of creation
ArrayFromValues ==
  [i \in 1..Cardinality(DOMAIN payments) |-> payments[i]]

\* the strings the sort keys take, in the order of JavaScript's < on strings
\* (by UTF-16 code unit)
StringOrder ==
  <<"EUR", "USD", "c1", "c2", "cancelled", "completed", "credit_card",
    "debit_card", "failed", "pending", "processing", "refunded">>

\* the place of a string in that order
Lex(s) == CHOOSE i \in 1..Len(StringOrder) : StringOrder[i] = s

\* PaymentRepository.getSortValue
getSortValue(payment, sortBy) ==
  CASE sortBy = "amount" -> payment.amount
    [] sortBy = "status" -> Lex(payment.status)
    [] sortBy = "customerId" -> Lex(payment.customerId)
    [] sortBy = "paymentMethod" -> Lex(payment.paymentMethod)
    [] sortBy = "currency" -> Lex(payment.currency)
    [] sortBy = "createdAt" -> payment.createdAt
    [] sortBy = "updatedAt" -> payment.updatedAt
    [] OTHER -> payment.createdAt

\* a comparator that takes every order for ascending
compareFnAscending(a, b, sortBy, sortOrder) ==
  IF getSortValue(a, sortBy) > getSortValue(b, sortBy) THEN 1 ELSE -1

\* the comparator handed to Array.sort: 1 or -1, never 0
compareFn(a, b, sortBy, sortOrder) ==
  LET aValue == getSortValue(a, sortBy)
      bValue == getSortValue(b, sortBy)
  IN IF sortOrder = "asc"
     THEN (IF aValue > bValue THEN 1 ELSE -1)
     ELSE (IF aValue < bValue THEN 1 ELSE -1)

\* the arrangements of an array
Arrangements(array) ==
  LET n == Len(array)
  IN {[i \in 1..n |-> array[f[i]]] :
        f \in {g \in [1..n -> 1..n] : \A i, j \in 1..n : i # j => g[i] # g[j]}}

\* Array.sort with that comparator: the comparator answers -1 both ways on
\* equal keys, so the order of such elements is the engine's choice; every
\* other pair is placed as the comparator says
sort(array, sortBy, sortOrder) ==
  {p \in Arrangements(array) :
     \A i, j \in 1..Len(p) :
       i < j => \/ compareFn(p[i], p[j], sortBy, sortOrder) < 0
                \/ compareFn(p[j], p[i], sortBy, sortOrder) > 0}

\* the elements of an array
Range(array) == {array[i] : i \in 1..Len(array)}

Min(a, b) == IF a < b THEN a ELSE b
Max(a, b) == IF a > b THEN a ELSE b

\* Array.slice(start, end) on zero-based indices
slice(array, start, end) ==
  LET len == Len(array)
      from == IF start < 0 THEN Max(len + start, 0) ELSE Min(start, len)
      to == IF end < 0 THEN Max(len + end, 0) ELSE Min(end, len)
  IN [i \in 1..Max(to - from, 0) |-> array[from + i]]

\* paginateResults that takes page for a zero-based index
paginateResultsZeroBased(array, page, limit) ==
  LET total == Len(array)
      startIndex == page * limit
      endIndex == startIndex + limit
  IN [data |-> slice(array, startIndex, endIndex), total |-> total]

\* paginateResults whose page runs one element into the next page
paginateResultsOverlapping(array, page, limit) ==
  LET total == Len(array)
      startIndex == (page - 1) * limit
      endIndex == startIndex + limit + 1
  IN [data |-> slice(array, startIndex, endIndex), total |-> total]

\* PaymentRepository.paginateResults
paginateResults(array, page, limit) ==
  LET total == Len(array)
      startIndex == (page - 1) * limit
      endIndex == startIndex + limit
  IN [data |-> slice(array, startIndex, endIndex), total |-> total]

\* a default parameter value: it stands in for undefined
Default(opt, value) == IF opt = {} THEN value ELSE CHOOSE v \in opt : TRUE

\* a finder that cuts the page out of all payments and filters afterwards
findPaginatedThenFiltered(filter, value, page, limit, sortBy, sortOrder) ==
  {LET found == paginateResults(sorted, page, limit)
   IN [data |-> SelectSeq(found.data,
                  LAMBDA payment :
                    IF filter = "customerId" THEN payment.customerId = value
                    ELSE IF filter = "status" THEN payment.status = value
                    ELSE TRUE),
       total |-> found.total] :
     sorted \in sort(ArrayFromValues, Default(sortBy, "createdAt"),
                     Default(sortOrder, "desc"))}

\* the three paginated finders, each the set of results the sort may give;
\* filter is "none", "customerId" or "status" and value what it looks for
Matches(payment, filter, value) ==
  CASE filter = "customerId" -> payment.customerId = value
    [] filter = "status" -> payment.status = value
    [] OTHER -> TRUE

findFilteredPaginated(filter, value, page, limit, sortBy, sortOrder) ==
  LET matching == SelectSeq(ArrayFromValues,
                            LAMBDA payment : Matches(payment, filter, value))
  IN {paginateResults(sorted, page, limit) :
        sorted \in sort(matching, Default(sortBy, "createdAt"),
                        Default(sortOrder, "desc"))}

findPaginated(page, limit, sortBy, sortOrder) ==
  findFilteredPaginated("none", "", page, limit, sortBy, sortOrder)

findByCustomerIdPaginated(customerId, page, limit, sortBy, sortOrder) ==
  findFilteredPaginated("customerId", customerId, page, limit, sortBy, sortOrder)

findByStatusPaginated(status, page, limit, sortBy, sortOrder) ==
  findFilteredPaginated("status", status, page, limit, sortBy, sortOrder)

\* a division that rounds down
MathFloorDiv(a, b) == a \div b

\* Math.ceil(a / b) for a >= 0 and b > 0
MathCeilDiv(a, b) == IF a % b = 0 THEN a \div b ELSE (a \div b) + 1

\* the page object a Service list operation wraps a Store result into
PaginatedResponse(paginationDto, found) ==
  LET totalPages == MathCeilDiv(found.total, paginationDto.limit)
  IN [data |-> found.data,
      meta |-> [page |-> paginationDto.page,
                limit |-> paginationDto.limit,
                total |-> found.total,
                totalPages |-> totalPages,
                hasNext |-> paginationDto.page < totalPages,
                hasPrevious |-> paginationDto.page > 1]]

getAllPaymentsPaginated(paginationDto) ==
  {PaginatedResponse(paginationDto, found) :
     found \in findPaginated(paginationDto.page, paginationDto.limit,
                             paginationDto.sortBy, paginationDto.sortOrder)}

getPaymentsByCustomerIdPaginated(customerId, paginationDto) ==
  {PaginatedResponse(paginationDto, found) :
     found \in findByCustomerIdPaginated(customerId, paginationDto.page,
                 paginationDto.limit, paginationDto.sortBy,
                 paginationDto.sortOrder)}

getPaymentsByStatusPaginated(status, paginationDto) ==
  {PaginatedResponse(paginationDto, found) :
     found \in findByStatusPaginated(status, paginationDto.page,
                 paginationDto.limit, paginationDto.sortBy,
                 paginationDto.sortOrder)}

\* PaymentController.getAllPayments: the responses GET /payments may give
getAllPayments(queryDto) ==
  LET result ==
        IF Truthy(queryDto.customerId)
        THEN getPaymentsByCustomerIdPaginated(
               CHOOSE c \in queryDto.customerId : TRUE, queryDto)
        ELSE IF Truthy(queryDto.status)
        THEN getPaymentsByStatusPaginated(
               CHOOSE s \in queryDto.status : TRUE, queryDto)
        ELSE getAllPaymentsPaginated(queryDto)
  IN {[data |-> [i \in 1..Len(r.data) |-> toJSON(r.data[i])], meta |-> r.meta] :
        r \in result}

\* -------------------------------------------------------------- persistence
\* Date.prototype.toJSON: the ISO-8601 string of an instant, to the
\* millisecond, and new Date(string) on such a string
toISOString(t) == <<"iso", t>>
newDate(s) == s[2]

\* the properties of an entity that may be undefined, and those that are Dates
OptionalFields == {"description", "metadata", "processedAt", "failureReason"}
DateFields == {"createdAt", "updatedAt", "processedAt"}

\* JSON.stringify of the object toJSON returns, written as the value
\* JSON.parse gives for the text: a property whose value is undefined is left
\* out and a Date becomes its ISO string
JSONStringify(o) ==
  [k \in {f \in DOMAIN o : ~(f \in OptionalFields /\ o[f] = {})} |->
     LET v == IF k \in OptionalFields THEN CHOOSE x \in o[k] : TRUE ELSE o[k]
     IN IF k \in DateFields THEN toISOString(v) ELSE v]

\* the text saveToFile hands to fs.writeFile; it is what the file holds while
\* file = "fresh"
paymentsArray ==
  [i \in 1..Len(ArrayFromValues) |-> JSONStringify(toJSON(ArrayFromValues[i]))]

\* a rehydration that does not read processedAt back
PaymentFromDataNoProcessedAt(paymentData) ==
  LET Optional(f) == IF f \in DOMAIN paymentData THEN {paymentData[f]} ELSE {}
  IN [id |-> paymentData.id,
      amount |-> paymentData.amount,
      currency |-> paymentData.currency,
      paymentMethod |-> paymentData.paymentMethod,
      status |-> paymentData.status,
      customerId |-> paymentData.customerId,
      description |-> Optional("description"),
      metadata |-> Optional("metadata"),
      createdAt |-> newDate(paymentData.createdAt),
      updatedAt |-> newDate(paymentData.updatedAt),
      processedAt |-> {},
      failureReason |-> Optional("failureReason")]

\* loadFromFile's new PaymentEntity({...paymentData, createdAt, updatedAt,
\* processedAt}) for one record of the file: the constructor keeps both
\* timestamps, a Date being truthy
PaymentFromData(paymentData) ==
  LET Optional(f) == IF f \in DOMAIN paymentData THEN {paymentData[f]} ELSE {}
  IN [id |-> paymentData.id,
      amount |-> paymentData.amount,
      currency |-> paymentData.currency,
      paymentMethod |-> paymentData.paymentMethod,
      status |-> paymentData.status,
      customerId |-> paymentData.customerId,
      description |-> Optional("description"),
      metadata |-> Optional("metadata"),
      createdAt |-> newDate(paymentData.createdAt),
      updatedAt |-> newDate(paymentData.updatedAt),
      processedAt |-> IF "processedAt" \in DOMAIN paymentData
                      THEN {newDate(paymentData.processedAt)} ELSE {},
      failureReason |-> Optional("failureReason")]

\* PaymentRepository.loadFromFile on the parsed records of a well-formed
\* file: the collection it fills, a later record of an id replacing an
\* earlier one
loadFromFile(paymentsData) ==
  LET n == Len(paymentsData)
      last(id) == CHOOSE i \in 1..n :
                    /\ paymentsData[i].id = id
                    /\ \A j \in 1..n : paymentsData[j].id = id => j <= i
  IN [id \in {paymentsData[i].id : i \in 1..n} |->
        PaymentFromData(paymentsData[last(id)])]

\* the JSON value null standing for a record of the file
JSONNull == [null |-> TRUE]

\* entities a process may have left in the file: PENDING ones without any
\* optional property, and FAILED ones with all of them
FileEntities ==
  {PaymentEntity([id |-> i, amount |-> 500, currency |-> "USD",
                  paymentMethod |-> DEBIT_CARD, status |-> PENDING,
                  customerId |-> "c1", description |-> {},
                  metadata |-> {}], 0, 0) : i \in 1..MaxPayments}
  \cup
  {updateStatus(
     PaymentEntity([id |-> i, amount |-> 20000, currency |-> "EUR",
                    paymentMethod |-> CREDIT_CARD, status |-> PROCESSING,
                    customerId |-> "c2", description |-> {"Test payment"},
                    metadata |-> {[orderId |-> "o1"]}], 0, 0),
     FAILED, {"Card declined"}, MaxClock, MaxClock) : i \in 1..MaxPayments}

\* the elements an array in the file may have
FileRecords == {JSONStringify(toJSON(e)) : e \in FileEntities} \cup {JSONNull}

\* what the process may find at data/payments.json when it starts: no file,
\* text that is no JSON, JSON that is an object, null or a number, or a JSON
\* array of up to MaxRecords elements
FileContents ==
  [kind : {"missing", "unparsable", "object", "null", "number"},
   records : {<<>>}]
  \cup
  [kind : {"array"},
   records : UNION {[1..n -> FileRecords] : n \in 0..MaxRecords}]

\* the records loadFromFile's loop gets through: paymentData.createdAt throws
\* a TypeError on a null record, which ends the loop
RecordsLoaded(paymentsData) ==
  LET n == Len(paymentsData)
      stops == {i \in 1..n : paymentsData[i] = JSONNull}
      first == IF stops = {} THEN n + 1
               ELSE CHOOSE i \in stops : \A j \in stops : i <= j
  IN SubSeq(paymentsData, 1, first - 1)

\* PaymentRepository.loadFromFile on any file: the entries it has put into
\* the collection when it returns and the branch it took: "loaded" (the loop
\* ran to its end), "missing" (readFile threw ENOENT, nothing is logged) or
\* "failed" (any other error, logged by logger.error)
loadOutcome(data) ==
  CASE data.kind = "missing" -> [payments |-> EmptyMap, at |-> "missing"]
    [] data.kind = "unparsable" -> [payments |-> EmptyMap, at |-> "failed"]
    [] data.kind \in {"object", "null", "number"} ->
         [payments |-> EmptyMap, at |-> "failed"]
    [] data.kind = "array" ->
         [payments |-> loadFromFile(RecordsLoaded(data.records)),
          at |-> IF RecordsLoaded(data.records) = data.records
                 THEN "loaded" ELSE "failed"]

\* -------------------------------------------------------------------- Init
Init ==
  /\ payments = EmptyMap
  /\ now = 0
  /\ pc = [i \in Ids |-> "none"]
  /\ activeTimers = {}
  /\ inflight = {}
  /\ file = "none"

\* ----------------------------------------------------------------- actions
\* createPayment up to the file write of repository.create
CreateBegin(dto, max) ==
  /\ Cardinality(DOMAIN payments) < max
  /\ \E id \in uuidv4 \cap 1..max : \E r \in Reads2 :
       LET payment == PaymentEntity(
             [id |-> id, amount |-> dto.amount, currency |-> dto.currency,
              paymentMethod |-> dto.paymentMethod, status |-> PENDING,
              customerId |-> dto.customerId, description |-> dto.description,
              metadata |-> dto.metadata], r[1], r[2])
       IN /\ payments' = MapSet(payments, payment)
          /\ now' = r[2]
          /\ pc' = [pc EXCEPT ![id] = "creating"]
          /\ saveToFile("create", id)
  /\ UNCHANGED activeTimers

\* createPayment with a pipeline that has no first delay: when the creation's
\* write completes the pipeline goes straight to its PROCESSING update
CreateReturnNoDelay(id) ==
  /\ pc[id] = "creating"
  /\ \E w \in WritesOf("create", id) : \E t \in now..MaxClock :
       /\ payments' = MapSet(payments,
            updateStatus(payments[id], PROCESSING, {}, t, t))
       /\ now' = t
       /\ inflight' = Outdated(inflight \ {w}) \cup
                        {[owner |-> "sim", id |-> id, slot |-> 1, fresh |-> TRUE]}
       /\ file' = "stale"
  /\ pc' = [pc EXCEPT ![id] = "saving1"]
  /\ UNCHANGED activeTimers

\* the write completes; processPaymentAsync runs up to its first delay and
\* createPayment returns the saved payment
CreateReturn(id) ==
  /\ pc[id] = "creating"
  /\ \E w \in WritesOf("create", id) : writeFileDone(w)
  /\ pc' = [pc EXCEPT ![id] = "delay1"]
  /\ activeTimers' = activeTimers \cup {id}
  /\ UNCHANGED <<payments, now>>

\* what a call hands to its caller: a payment, or the exception it throws
Returns(payment) == [result |-> "ok", payment |-> {payment}]
Throws(exception) == [result |-> exception, payment |-> {}]

\* PaymentService.getPaymentById: the value returned or thrown
getPaymentById(id) ==
  IF findById(id) = {} THEN Throws("NotFound")
  ELSE Returns(CHOOSE p \in findById(id) : TRUE)

\* GET /payments/:id
GetPaymentById(id) ==
  /\ getPaymentById(id).result \in {"ok", "NotFound"}
  /\ UNCHANGED vars

\* an update that stamps createdAt along with updatedAt
ApplyUpdateRestamping(payment, dto, r) ==
  LET afterStatus ==
        IF dto.status # {}
        THEN [updateStatus(payment, CHOOSE s \in dto.status : TRUE,
                           dto.failureReason, r[1], r[2])
                EXCEPT !.createdAt = r[1]]
        ELSE payment
  IN IF dto.metadata # {}
     THEN [updateMetadata(afterStatus, MapOf(dto.metadata), r[3])
             EXCEPT !.createdAt = r[3]]
     ELSE afterStatus

\* an update that stamps updatedAt whatever the patch holds
ApplyUpdateTouching(payment, dto, r) ==
  LET afterStatus ==
        IF dto.status # {}
        THEN updateStatus(payment, CHOOSE s \in dto.status : TRUE,
                          dto.failureReason, r[1], r[2])
        ELSE [payment EXCEPT !.updatedAt = MaxClock]
  IN IF dto.metadata # {}
     THEN updateMetadata(afterStatus, MapOf(dto.metadata), r[3])
     ELSE afterStatus

\* the entity updatePayment hands to repository.update; r are the clock reads
ApplyUpdate(payment, dto, r) ==
  LET afterStatus ==
        IF dto.status # {}
        THEN updateStatus(payment, CHOOSE s \in dto.status : TRUE,
                          dto.failureReason, r[1], r[2])
        ELSE payment
  IN IF dto.metadata # {}
     THEN updateMetadata(afterStatus, MapOf(dto.metadata), r[3])
     ELSE afterStatus

\* the instant of the last clock read updatePayment makes
LastRead(dto, r) ==
  IF dto.metadata # {} THEN r[3] ELSE IF dto.status # {} THEN r[2] ELSE now

\* a check made on the status the payment had when it was created, not on
\* the one it has when the patch is applied
RejectsUpdateAsCreated(payment, dto) ==
  /\ dto.status # {}
  /\ \E s \in dto.status : ~isValidStatusTransition(PENDING, s)

\* updatePayment rejects the status of the patch
RejectsUpdate(payment, dto) ==
  /\ dto.status # {}
  /\ \E s \in dto.status : ~isValidStatusTransition(payment.status, s)

\* PaymentService.updatePayment: the exception it throws, or "ok" when it
\* goes on to repository.update
updatePaymentOutcome(id, dto) ==
  IF getPaymentById(id).result # "ok" THEN getPaymentById(id).result
  ELSE IF RejectsUpdate(payments[id], dto) THEN "InvalidTransition"
  ELSE "ok"

\* an updatePayment that starts a pipeline for a payment it puts back to
\* PENDING
UpdatePaymentRetrying(id, dto) ==
  IF updatePaymentOutcome(id, dto) # "ok"
  THEN UNCHANGED vars
  ELSE /\ \E r \in Reads3 :
            /\ payments' = MapSet(payments, ApplyUpdate(payments[id], dto, r))
            /\ now' = LastRead(dto, r)
       /\ saveToFile("update", id)
       /\ IF dto.status = {PENDING} /\ pc[id] = "done"
          THEN /\ pc' = [pc EXCEPT ![id] = "delay1"]
               /\ activeTimers' = activeTimers \cup {id}
          ELSE UNCHANGED <<pc, activeTimers>>

\* updatePayment up to the file write of repository.update
UpdatePayment(id, dto) ==
  IF updatePaymentOutcome(id, dto) # "ok"
  THEN UNCHANGED vars
  ELSE /\ \E r \in Reads3 :
            /\ payments' = MapSet(payments, ApplyUpdate(payments[id], dto, r))
            /\ now' = LastRead(dto, r)
       /\ saveToFile("update", id)
       /\ UNCHANGED <<pc, activeTimers>>

\* the write of an updatePayment completes and the call returns the payment
UpdateReturn(w) ==
  /\ w \in inflight
  /\ w.owner = "update"
  /\ writeFileDone(w)
  /\ UNCHANGED <<payments, now, pc, activeTimers>>

\* a pipeline that does not await its PROCESSING update but goes straight on
\* to the second delay
SimProcessingNoAwait(id) ==
  /\ pc[id] = "delay1"
  /\ id \in activeTimers
  /\ \E t \in now..MaxClock :
       /\ payments' = MapSet(payments,
            updateStatus(payments[id], PROCESSING, {}, t, t))
       /\ now' = t
  /\ saveToFile("sim", id)
  /\ pc' = [pc EXCEPT ![id] = "delay2"]
  /\ UNCHANGED activeTimers

\* processPaymentAsync: the first timer fires; re-fetch, PROCESSING, update
SimProcessing(id) ==
  /\ pc[id] = "delay1"
  /\ id \in activeTimers
  /\ activeTimers' = activeTimers \ {id}
  /\ IF findById(id) = {}
     THEN /\ pc' = [pc EXCEPT ![id] = "done"]
          /\ UNCHANGED <<payments, now, inflight, file>>
     ELSE /\ \E t \in now..MaxClock :
               /\ payments' = MapSet(payments,
                    updateStatus(payments[id], PROCESSING, {}, t, t))
               /\ now' = t
          /\ saveToFile("sim", id)
          /\ pc' = [pc EXCEPT ![id] = "saving1"]

\* the PROCESSING write completes; simulatePaymentProcessing starts its delay
SimPersisted1(id) ==
  /\ pc[id] = "saving1"
  /\ \E w \in WritesOf("sim", id) : writeFileDone(w)
  /\ pc' = [pc EXCEPT ![id] = "delay2"]
  /\ activeTimers' = activeTimers \cup {id}
  /\ UNCHANGED <<payments, now>>

\* the outcome simulatePaymentProcessing returns for a draw and a reason index
processingResult(payment, draw, k) ==
  IF draw < getFailureRate(payment)
  THEN [success |-> FALSE, error |-> {errorReasons[k]}]
  ELSE [success |-> TRUE, transactionId |-> "txn_uuid",
        response |-> "Payment approved"]

\* a terminal update that on failure records the reason and no status
ApplyResultReasonOnly(payment, result, r) ==
  IF result.success
  THEN updateMetadata(
         updateStatus(payment, COMPLETED, {}, r[1], r[2]),
         Spread(MapOf(payment.metadata),
                [transactionId |-> result.transactionId,
                 processorResponse |-> result.response]),
         r[3])
  ELSE [payment EXCEPT !.failureReason = result.error, !.updatedAt = r[1]]

\* a terminal update that writes the outcome in place of the metadata
ApplyResultOverlayOnly(payment, result, r) ==
  IF result.success
  THEN updateMetadataReplacing(
         updateStatus(payment, COMPLETED, {}, r[1], r[2]),
         [transactionId |-> result.transactionId,
          processorResponse |-> result.response],
         r[3])
  ELSE updateStatus(payment, FAILED, result.error, r[1], r[2])

\* the entity after the pipeline's terminal update
ApplyResult(payment, result, r) ==
  IF result.success
  THEN updateMetadata(
         updateStatus(payment, COMPLETED, {}, r[1], r[2]),
         Spread(MapOf(payment.metadata),
                [transactionId |-> result.transactionId,
                 processorResponse |-> result.response]),
         r[3])
  ELSE updateStatus(payment, FAILED, result.error, r[1], r[2])

\* the second timer fires; outcome, terminal status, update
SimTerminal(id) ==
  /\ pc[id] = "delay2"
  /\ id \in activeTimers
  /\ activeTimers' = activeTimers \ {id}
  /\ \E draw \in Draws : \E k \in ReasonDraws : \E r \in Reads3 :
       LET result == processingResult(payments[id], draw, k)
       IN /\ payments' = MapSet(payments, ApplyResult(payments[id], result, r))
          /\ now' = IF result.success THEN r[3] ELSE r[2]
  /\ saveToFile("sim", id)
  /\ pc' = [pc EXCEPT ![id] = "saving2"]

\* the terminal write completes; the pipeline logs and ends
SimPersisted2(id) ==
  /\ pc[id] = "saving2"
  /\ \E w \in WritesOf("sim", id) : writeFileDone(w)
  /\ pc' = [pc EXCEPT ![id] = "done"]
  /\ UNCHANGED <<payments, now, activeTimers>>

\* errors fs.writeFile may throw
WriteErrors == {"ENOSPC", "EACCES"}

\* fs.writeFile for write w throws: the file is as it was, or cut short
\* where the write stopped
writeFileFailed(w) ==
  /\ inflight' = inflight \ {w}
  /\ file' \in {file, "corrupt"}

\* a saveToFile without its catch: the error reaches the caller
saveToFileRethrowing(error) == error

\* what awaiting saveToFile gives when fs.writeFile has thrown error: the
\* catch logs the error and the promise resolves
saveToFileResult(error) == "ok"

\* what repository.create and repository.update hand back for a payment
\* whose write has thrown error
repositoryResult(payment, error) ==
  IF saveToFileResult(error) = "ok" THEN Returns(payment)
  ELSE Throws(saveToFileResult(error))

\* the write of repository.create fails; createPayment goes on as after a
\* completed write
CreateReturnFailed(id) ==
  /\ pc[id] = "creating"
  /\ \E w \in WritesOf("create", id) : writeFileFailed(w)
  /\ \E error \in WriteErrors :
       IF repositoryResult(payments[id], error).result = "ok"
       THEN /\ pc' = [pc EXCEPT ![id] = "delay1"]
            /\ activeTimers' = activeTimers \cup {id}
       ELSE /\ pc' = [pc EXCEPT ![id] = "threw"]
            /\ UNCHANGED activeTimers
  /\ UNCHANGED <<payments, now>>

\* the write of an updatePayment fails; the call returns the payment
UpdateReturnFailed(w) ==
  /\ w \in inflight
  /\ w.owner = "update"
  /\ writeFileFailed(w)
  /\ UNCHANGED <<payments, now, pc, activeTimers>>

\* the PROCESSING write fails; the pipeline goes on to its second delay
SimPersisted1Failed(id) ==
  /\ pc[id] = "saving1"
  /\ \E w \in WritesOf("sim", id) : writeFileFailed(w)
  /\ \E error \in WriteErrors :
       IF repositoryResult(payments[id], error).result = "ok"
       THEN /\ pc' = [pc EXCEPT ![id] = "delay2"]
            /\ activeTimers' = activeTimers \cup {id}
       ELSE /\ pc' = [pc EXCEPT ![id] = "threw"]
            /\ UNCHANGED activeTimers
  /\ UNCHANGED <<payments, now>>

\* the terminal write fails; the pipeline logs and ends
SimPersisted2Failed(id) ==
  /\ pc[id] = "saving2"
  /\ \E w \in WritesOf("sim", id) : writeFileFailed(w)
  /\ \E error \in WriteErrors :
       pc' = [pc EXCEPT ![id] =
                IF repositoryResult(payments[id], error).result = "ok"
                THEN "done" ELSE "threw"]
  /\ UNCHANGED <<payments, now, activeTimers>>

\* a cleanup that clears one timer
CleanupOneTimer ==
  /\ activeTimers' = {id \in activeTimers : \E other \in activeTimers : other < id}
  /\ UNCHANGED <<payments, now, pc, inflight, file>>

\* a catch block that leaves the payment as it finds it
internalErrorIgnored(payment, t1, t2) == payment

\* the entity after the catch block of processPaymentAsync; t1 and t2 are
\* the clock reads of updateStatus
internalError(payment, t1, t2) ==
  updateStatus(payment, FAILED, {"Internal processing error"}, t1, t2)

\* the catch block of processPaymentAsync up to the file write of its
\* update, entered while the writes in settled complete: re-fetch, FAILED
\* with the internal reason, update
CatchPath(id, settled) ==
  LET rest == inflight \ settled
      settledFile == IF settled = {} THEN file
                     ELSE IF \E w \in settled : w.fresh THEN "fresh"
                     ELSE "stale"
  IN IF findById(id) = {}
     THEN /\ pc' = [pc EXCEPT ![id] = "done"]
          /\ inflight' = rest
          /\ file' = settledFile
          /\ UNCHANGED <<payments, now>>
     ELSE /\ \E r \in Reads2 :
               /\ payments' = MapSet(payments,
                                     internalError(payments[id], r[1], r[2]))
               /\ now' = r[2]
          /\ inflight' = (IF payments' = payments THEN rest ELSE Outdated(rest))
                           \cup {[owner |-> "sim", id |-> id, slot |-> 1,
                                  fresh |-> TRUE]}
          /\ file' = IF settledFile \in {"none", "corrupt"} \/ payments' = payments
                     THEN settledFile ELSE "stale"
          /\ pc' = [pc EXCEPT ![id] = "recovering"]

\* the first timer fires and the code that follows raises an error before
\* it has changed the payment
SimProcessingThrows(id) ==
  /\ pc[id] = "delay1"
  /\ id \in activeTimers
  /\ activeTimers' = activeTimers \ {id}
  /\ CatchPath(id, {})

\* the PROCESSING update raises an error as its write completes
SimPersisted1Throws(id) ==
  /\ pc[id] = "saving1"
  /\ \E w \in WritesOf("sim", id) : CatchPath(id, {w})
  /\ UNCHANGED activeTimers

\* the second timer fires and simulatePaymentProcessing raises an error
SimTerminalThrows(id) ==
  /\ pc[id] = "delay2"
  /\ id \in activeTimers
  /\ activeTimers' = activeTimers \ {id}
  /\ CatchPath(id, {})

\* the terminal update raises an error as its write completes
SimPersisted2Throws(id) ==
  /\ pc[id] = "saving2"
  /\ \E w \in WritesOf("sim", id) : CatchPath(id, {w})
  /\ UNCHANGED activeTimers

\* the write of the catch block's update completes; the pipeline ends
SimRecovered(id) ==
  /\ pc[id] = "recovering"
  /\ \E w \in WritesOf("sim", id) : writeFileDone(w)
  /\ pc' = [pc EXCEPT ![id] = "done"]
  /\ UNCHANGED <<payments, now, activeTimers>>

\* the catch block's update raises an error in its turn as its write
\* settles: the inner catch logs it and the pipeline ends
SimRecoveryThrows(id) ==
  /\ pc[id] = "recovering"
  /\ \E w \in WritesOf("sim", id) : writeFileDone(w) \/ writeFileFailed(w)
  /\ pc' = [pc EXCEPT ![id] = "done"]
  /\ UNCHANGED <<payments, now, activeTimers>>

\* PaymentService.cleanup
Cleanup ==
  /\ activeTimers' = {}
  /\ UNCHANGED <<payments, now, pc, inflight, file>>

\* the requests served and the pipeline steps taken, for a bound on the number
\* of payments and the request bodies that arrive
Steps(max, createDtos, updateDtos) ==
  \/ \E dto \in createDtos : CreateBegin(dto, max)
  \/ \E id \in 1..max : CreateReturn(id)
  \/ \E id \in 0..max : GetPaymentById(id)
  \/ \E id \in 0..max : \E dto \in updateDtos : UpdatePayment(id, dto)
  \/ \E w \in inflight : UpdateReturn(w)
  \/ \E id \in 1..max : SimProcessing(id)
  \/ \E id \in 1..max : SimPersisted1(id)
  \/ \E id \in 1..max : SimTerminal(id)
  \/ \E id \in 1..max : SimPersisted2(id)

\* one payment through its whole life, every request body, a running clock
Next == Steps(MaxTracked, CreateDtos, UpdateDtos) \/ Cleanup

Spec == Init /\ [][Next]_vars

\* several payments side by side, the clock standing at one instant
StoreInit ==
  /\ payments = EmptyMap
  /\ now = MaxClock
  /\ pc = [i \in Ids |-> "none"]
  /\ activeTimers = {}
  /\ inflight = {}
  /\ file = "none"

StoreNext == Steps(MaxPayments, StoreCreateDtos, StoreUpdateDtos) \/ Cleanup

StoreSpec == StoreInit /\ [][StoreNext]_vars

\* no cleanup(): every timer set fires and every file write completes
LiveNext == Steps(MaxTracked, CreateDtos, UpdateDtos)

Fairness ==
  \A id \in Ids :
    /\ WF_vars(CreateReturn(id))
    /\ WF_vars(SimProcessing(id))
    /\ WF_vars(SimPersisted1(id))
    /\ WF_vars(SimTerminal(id))
    /\ WF_vars(SimPersisted2(id))

LiveSpec == Init /\ [][LiveNext]_vars /\ Fairness

\* one payment through its whole life under metadata patches
MetaNext == Steps(MaxTracked, CreateDtos, MetaUpdateDtos) \/ Cleanup

MetaSpec == Init /\ [][MetaNext]_vars

\* GET /payments
GetAllPayments(queryDto) ==
  /\ getAllPayments(queryDto) # {}
  /\ UNCHANGED vars

\* the store after the creations dtos[1], dtos[2], ... at the instants
\* created[i], the pipelines of the payments with processed[i] = {t} having
\* made their PROCESSING write at t
ListStore(dtos, created, processed) ==
  [i \in 1..Len(dtos) |->
     LET e == PaymentEntity(
                [id |-> i, amount |-> dtos[i].amount,
                 currency |-> dtos[i].currency,
                 paymentMethod |-> dtos[i].paymentMethod, status |-> PENDING,
                 customerId |-> dtos[i].customerId,
                 description |-> dtos[i].description,
                 metadata |-> dtos[i].metadata], created[i], created[i])
     IN IF processed[i] = {} THEN e
        ELSE updateStatus(e, PROCESSING, {},
                          CHOOSE t \in processed[i] : TRUE,
                          CHOOSE t \in processed[i] : TRUE)]

\* up to MaxListed payments created one after the other from different
\* bodies, some already PROCESSING, every file write completed and the
\* pending timers cancelled by cleanup()
ListInit ==
  \E n \in 0..MaxListed :
    \E dtos \in [1..n -> ListCreateDtos] :
      \E created \in [1..n -> 0..MaxClock] :
        \E processed \in [1..n -> {{}, {MaxClock}}] :
          /\ \A i, j \in 1..n : i # j => dtos[i] # dtos[j]
          /\ \A i, j \in 1..n : i < j => created[i] <= created[j]
          /\ \A i \in 1..n : \A t \in processed[i] : created[i] <= t
          /\ payments = ListStore(dtos, created, processed)
          /\ pc = [i \in Ids |->
                     IF i > n THEN "none"
                     ELSE IF processed[i] = {} THEN "delay1" ELSE "delay2"]
  /\ now = MaxClock
  /\ activeTimers = {}
  /\ inflight = {}
  /\ file = "fresh"

ListNext ==
  \/ \E queryDto \in ListQueryDtos : GetAllPayments(queryDto)
  \/ \E id \in RequestIds : \E dto \in ListUpdateDtos : UpdatePayment(id, dto)
  \/ \E w \in inflight : UpdateReturn(w)

ListSpec == ListInit /\ [][ListNext]_vars

\* a restart that starts a pipeline for every PENDING payment it loads
RestartResuming ==
  /\ file = "fresh"
  /\ inflight = {}
  /\ payments' = loadFromFile(paymentsArray)
  /\ pc' = [i \in Ids |->
              IF i \notin DOMAIN payments' THEN "none"
              ELSE IF payments'[i].status = PENDING THEN "delay1"
              ELSE "rehydrated"]
  /\ activeTimers' = {i \in DOMAIN payments' : payments'[i].status = PENDING}
  /\ file' = IF payments' = payments THEN "fresh" ELSE "stale"
  /\ UNCHANGED <<now, inflight>>

\* the process ends and starts again while the file holds the snapshot of the
\* collection as it stands and no write is in flight: timers and pipelines
\* are gone with the old process, and the new Store has loaded the file
Restart ==
  /\ file = "fresh"
  /\ inflight = {}
  /\ payments' = loadFromFile(paymentsArray)
  /\ pc' = [i \in Ids |-> IF i \in DOMAIN payments' THEN "rehydrated" ELSE "none"]
  /\ activeTimers' = {}
  /\ file' = IF payments' = payments THEN "fresh" ELSE "stale"
  /\ UNCHANGED <<now, inflight>>

\* one payment through its whole life, with restarts
RestartNext == Steps(MaxTracked, CreateDtos, UpdateDtos) \/ Cleanup \/ Restart

RestartSpec == Init /\ [][RestartNext]_vars

\* one payment through its whole life on a disk whose writes may fail
FaultNext ==
  \/ Steps(MaxTracked, CreateDtos, UpdateDtos)
  \/ Cleanup
  \/ \E id \in 1..MaxTracked : CreateReturnFailed(id)
  \/ \E w \in inflight : UpdateReturnFailed(w)
  \/ \E id \in 1..MaxTracked : SimPersisted1Failed(id)
  \/ \E id \in 1..MaxTracked : SimPersisted2Failed(id)

FaultSpec == Init /\ [][FaultNext]_vars

\* one payment through its whole life under metadata patches that meet the
\* pipeline's own keys
MergeNext == Steps(MaxTracked, CreateDtos, MergeUpdateDtos) \/ Cleanup

MergeSpec == Init /\ [][MergeNext]_vars

\* a new process: the constructor has called initializeStorage, whose
\* fs.readFile is in flight and will give data; position 0 of pc is where
\* initializeStorage stands
BootInit ==
  \E data \in FileContents :
    /\ payments = EmptyMap
    /\ now = 0
    /\ pc = [i \in {0} \cup Ids |-> IF i = 0 THEN "reading" ELSE "none"]
    /\ activeTimers = {}
    /\ inflight = {[owner |-> "load", id |-> 0, slot |-> 1, fresh |-> FALSE,
                    data |-> data]}
    /\ file = CASE data.kind = "missing" -> "none"
                [] data.kind = "array" /\ data.records = <<>> -> "fresh"
                [] data.kind = "array" /\ JSONNull \notin Range(data.records)
                     -> "stale"
                [] OTHER -> "corrupt"

\* fs.readFile completes and loadFromFile runs to its end: each record read
\* is set into the collection, in the order of the file, next to what the
\* requests served in the meantime have put there; the snapshots of the
\* writes in flight were taken before
InitializeStorage(w) ==
  /\ w \in inflight
  /\ w.owner = "load"
  /\ LET outcome == loadOutcome(w.data)
         loaded == outcome.payments
     IN /\ payments' = [id \in (DOMAIN payments) \cup (DOMAIN loaded) |->
                          IF id \in DOMAIN loaded THEN loaded[id]
                          ELSE payments[id]]
        /\ pc' = [i \in DOMAIN pc |->
                    IF i = 0 THEN outcome.at
                    ELSE IF i \in DOMAIN loaded THEN "rehydrated" ELSE pc[i]]
        /\ file' = IF /\ file = "stale"
                      /\ payments = EmptyMap
                      /\ inflight = {w}
                      /\ Cardinality(DOMAIN loaded) = Len(w.data.records)
                   THEN "fresh"
                   ELSE IF file = "fresh" /\ payments' # payments
                        THEN "stale" ELSE file
        /\ inflight' = IF payments' = payments THEN inflight \ {w}
                       ELSE Outdated(inflight \ {w})
  /\ UNCHANGED <<now, activeTimers>>

\* a process that starts on a file and serves lookups
BootNext ==
  \/ \E w \in inflight : InitializeStorage(w)
  \/ \E id \in RequestIds : GetPaymentById(id)

BootSpec == BootInit /\ [][BootNext]_vars

\* one payment through its whole life with a pipeline in which any step may
\* raise an error
CatchNext ==
  \/ Steps(MaxTracked, CreateDtos, UpdateDtos)
  \/ Cleanup
  \/ \E id \in 1..MaxTracked : SimProcessingThrows(id)
  \/ \E id \in 1..MaxTracked : SimPersisted1Throws(id)
  \/ \E id \in 1..MaxTracked : SimTerminalThrows(id)
  \/ \E id \in 1..MaxTracked : SimPersisted2Throws(id)
  \/ \E id \in 1..MaxTracked : SimRecovered(id)
  \/ \E id \in 1..MaxTracked : SimRecoveryThrows(id)

CatchSpec == Init /\ [][CatchNext]_vars

\* several payments side by side, each with a pipeline in which any step may
\* raise an error, the clock standing at one instant
FrameNext ==
  \/ Steps(MaxPayments, StoreCreateDtos, StoreUpdateDtos)
  \/ \E id \in 1..MaxPayments : SimProcessingThrows(id)
  \/ \E id \in 1..MaxPayments : SimPersisted1Throws(id)
  \/ \E id \in 1..MaxPayments : SimTerminalThrows(id)
  \/ \E id \in 1..MaxPayments : SimPersisted2Throws(id)
  \/ \E id \in 1..MaxPayments : SimRecovered(id)
  \/ \E id \in 1..MaxPayments : SimRecoveryThrows(id)

FrameSpec == StoreInit /\ [][FrameNext]_vars

\* the pipelines under way: started by createPayment and not yet at their end
UnderWay ==
  {id \in Ids : pc[id] \in {"delay1", "saving1", "delay2", "saving2"}}

\* a process whose cleanup() calls are remembered: position 0 of pc holds
\* the pipelines that were under way when a cleanup() returned
CancelInit ==
  /\ payments = EmptyMap
  /\ now = 0
  /\ pc = [i \in {0} \cup Ids |-> IF i = 0 THEN {} ELSE "none"]
  /\ activeTimers = {}
  /\ inflight = {}
  /\ file = "none"

\* PaymentService.cleanup, remembered
CleanupReturns ==
  /\ activeTimers' = {}
  /\ pc' = [pc EXCEPT ![0] = @ \cup UnderWay]
  /\ UNCHANGED <<payments, now, inflight, file>>

\* one payment through its whole life, with cleanup() calls at any moment
CancelNext == Steps(MaxTracked, CreateDtos, UpdateDtos) \/ CleanupReturns

CancelSpec == CancelInit /\ [][CancelNext]_vars

\* a file as saveToFile writes it: an array of records, one for each id
WellFormed(data) ==
  /\ data.kind = "array"
  /\ Len(data.records) <= MaxTracked
  /\ JSONNull \notin Range(data.records)
  /\ \A i, j \in DOMAIN data.records :
       data.records[i].id = data.records[j].id => i = j

\* a new process on a file an earlier process has written
EarlyInit == BootInit /\ \A w \in inflight : WellFormed(w.data)

\* requests served from the moment the process starts, while the file is
\* still being read and afterwards
EarlyNext ==
  \/ \E w \in inflight : InitializeStorage(w)
  \/ Steps(MaxPayments, StoreCreateDtos, ListUpdateDtos)

EarlySpec == EarlyInit /\ [][EarlyNext]_vars

\* one payment through its whole life, of an amount at or above the
\* threshold of the failure rate
RateNext == Steps(MaxTracked, RateCreateDtos, ListUpdateDtos)

RateSpec == Init /\ [][RateNext]_vars

\* ------------------------------------------------------------------ claims
\* the transition table of the payment state machine
TransitionTable ==
  { <<PENDING, PROCESSING>>, <<PENDING, CANCELLED>>,
    <<PROCESSING, COMPLETED>>, <<PROCESSING, FAILED>>,
    <<COMPLETED, REFUNDED>>, <<FAILED, PENDING>> }

Stored == DOMAIN payments

\* the status a patch carries
StatusOf(dto) == CHOOSE s \in dto.status : TRUE

\* the patch asks for a change of status that is, or is not, an edge
OnEdge(id, dto) ==
  dto.status # {} /\ <<payments[id].status, StatusOf(dto)>> \in TransitionTable
OffEdge(id, dto) ==
  dto.status # {} /\ <<payments[id].status, StatusOf(dto)>> \notin TransitionTable

\* C1: every change of a stored payment's status, by updatePayment or by the
\* pipeline, goes along an edge of the transition table
C1_StatusChangesAlongEdges ==
  [][vars' = vars \/ \A id \in Stored :
       payments'[id].status # payments[id].status
         => <<payments[id].status, payments'[id].status>> \in TransitionTable]_vars

\* C2: a patch whose status is not reachable by an edge from the payment's
\* status (the same status included) is rejected with InvalidTransition, and
\* the call changes nothing: no field of the stored entity (the metadata of
\* the patch is not merged), no Store.update, no file write
C2_Rejects ==
  \A id \in Stored : \A dto \in UpdateDtos :
    OffEdge(id, dto) => updatePaymentOutcome(id, dto) = "InvalidTransition"

C3_Applied(id, to) ==
  /\ payments'[id].status = to
  /\ payments'[id].updatedAt \in now..now'
  /\ payments'[id].updatedAt >= payments[id].updatedAt
  /\ (payments'[id].processedAt # {}
        <=> (to \in {COMPLETED, FAILED} \/ payments[id].processedAt # {}))

\* C3 (amended): on every edge (from, to) of the table updatePayment with
\* status to succeeds, the stored status becomes to, updatedAt becomes a
\* clock reading of the call, never earlier than its prior value, and
\* processedAt is set afterwards iff to is COMPLETED or FAILED or it was set
C3_Succeeds ==
  \A id \in Stored : \A dto \in UpdateDtos :
    OnEdge(id, dto) => updatePaymentOutcome(id, dto) = "ok"

C3_EdgeApplied ==
  [][vars' = vars \/
     /\ C3_Succeeds
     /\ C3_Succeeds'
     /\ \A id \in Stored : \A dto \in UpdateDtos :
          OnEdge(id, dto) /\ UpdatePayment(id, dto)
            => C3_Applied(id, StatusOf(dto))]_vars

\* C3 as stated: updatedAt advances, that is, becomes strictly later
C3_UpdatedAtAdvances ==
  [][vars' = vars \/ \A id \in Stored : \A dto \in UpdateDtos :
       OnEdge(id, dto) /\ UpdatePayment(id, dto)
         => /\ C3_Applied(id, StatusOf(dto))
            /\ payments'[id].updatedAt > payments[id].updatedAt]_vars

\* C3 witness: a payment updatePayment has moved FAILED -> PENDING, its
\* processedAt still set
C3_Witness ==
  \E id \in Stored :
    /\ payments[id].status = PENDING
    /\ payments[id].processedAt # {}

\* C4: processedAt, once set, keeps its value
C4_ProcessedAtSetOnce ==
  [][vars' = vars \/ \A id \in Stored :
       payments[id].processedAt # {}
         => payments'[id].processedAt = payments[id].processedAt]_vars

\* C5: CANCELLED and REFUNDED are absorbing
C5_TerminalAbsorbing ==
  [][vars' = vars \/ \A id \in Stored :
       payments[id].status \in {CANCELLED, REFUNDED}
         => payments'[id].status = payments[id].status]_vars

\* the step in which createPayment returns the payment of id
CreateReturns(id) == pc[id] = "creating" /\ pc'[id] = "delay1"

\* the fields a payment takes from the body of its creation request
FromRequest(payment, dto) ==
  /\ payment.amount = dto.amount
  /\ payment.currency = dto.currency
  /\ payment.paymentMethod = dto.paymentMethod
  /\ payment.customerId = dto.customerId

\* the pipeline of id stands before its first write
BeforeFirstWrite(id) ==
  /\ pc'[id] = "delay1"
  /\ id \in activeTimers'
  /\ WritesOf("sim", id)' = {}

\* C6 (amended): createPayment stores the payment as PENDING with the
\* request's amount, currency, paymentMethod and customerId; until it returns
\* those fields stay, the status changes only by an updatePayment call served
\* while the creation's file write is in flight, and the pipeline takes no
\* step; when it returns the payment is stored and the pipeline stands before
\* its first write
C6_CreateReturnsBeforePipeline ==
  [][vars' = vars \/ \A id \in Ids :
       /\ \A dto \in CreateDtos :
            (id \notin Stored /\ id \in Stored' /\ CreateBegin(dto, MaxPayments))
              => /\ payments'[id].status = PENDING
                 /\ FromRequest(payments'[id], dto)
                 /\ pc'[id] = "creating"
       /\ pc[id] = "creating"
            => /\ pc'[id] \in {"creating", "delay1"}
               /\ id \in Stored'
               /\ \A dto \in CreateDtos :
                    FromRequest(payments[id], dto) => FromRequest(payments'[id], dto)
               /\ payments'[id].status # payments[id].status
                    => \E dto \in UpdateDtos : UpdatePayment(id, dto)
       /\ CreateReturns(id) => BeforeFirstWrite(id)]_vars

\* C6 as stated: when createPayment returns, the stored payment is PENDING
C6_PendingAtReturn ==
  [][vars' = vars \/ \A id \in Ids :
       CreateReturns(id)
         => /\ id \in Stored'
            /\ payments'[id].status = PENDING
            /\ BeforeFirstWrite(id)]_vars

\* C6 witness: createPayment has returned the second request's payment, still
\* PENDING, its pipeline waiting on the first delay
C6_Witness ==
  \E id \in Stored :
    /\ pc[id] = "delay1"
    /\ id \in activeTimers
    /\ payments[id].status = PENDING
    /\ payments[id].amount = 20000
    /\ payments[id].customerId = "c2"

\* C7: a payment just created has createdAt = updatedAt
C7_CreatedAtEqualsUpdatedAt ==
  [][vars' = vars \/ \A id \in Stored' \ Stored :
       payments'[id].createdAt = payments'[id].updatedAt]_vars

\* C8: a createPayment adds exactly one payment, under an id no stored
\* payment has, and leaves the others as they are; no step removes a payment,
\* and the payment stored under an id carries that id
C8_IdsUniqueNeverRemoved ==
  [][vars' = vars \/
     /\ Stored \subseteq Stored'
     /\ \A id \in Stored' : payments'[id].id = id /\ findById(id)' # {}
     /\ (\E dto \in CreateDtos : CreateBegin(dto, MaxPayments))
          => /\ Cardinality(Stored') = Cardinality(Stored) + 1
             /\ \A id \in Stored : payments'[id] = payments[id]]_vars

\* C8 witness: two payments stored, the first one cancelled and its timer
\* cleared by cleanup()
C8_Witness ==
  /\ Cardinality(Stored) = 2
  /\ payments[1].status = CANCELLED
  /\ pc[1] = "delay1"
  /\ 1 \notin activeTimers

\* the pipeline's terminal write leaves COMPLETED or FAILED and a processedAt
C9_TerminalWrite(id) ==
  (pc[id] = "delay2" /\ pc'[id] = "saving2")
    => /\ payments'[id].status \in {COMPLETED, FAILED}
       /\ payments'[id].processedAt # {}

\* C9 (amended): without cleanup() and with timers and file writes that
\* complete, every created payment's pipeline eventually completes; its
\* terminal write leaves status COMPLETED or FAILED with processedAt set, and
\* processedAt is set when the pipeline completes (the status may by then
\* have been moved on by an updatePayment call)
C9_PipelineCompletes ==
  /\ \A id \in Ids : (pc[id] = "creating") ~> (pc[id] = "done")
  /\ [][vars' = vars \/ \A id \in Ids :
          /\ C9_TerminalWrite(id)
          /\ pc'[id] = "done" => payments'[id].processedAt # {}]_vars

\* C9 as stated: when the pipeline completes the status is COMPLETED or
\* FAILED and processedAt is set
C9_TerminalAtCompletion ==
  [][vars' = vars \/ \A id \in Ids :
       (pc[id] # "done" /\ pc'[id] = "done")
         => /\ payments'[id].status \in {COMPLETED, FAILED}
            /\ payments'[id].processedAt # {}]_vars

\* C9 witness: a pipeline has completed and left its payment COMPLETED
C9_Witness ==
  \E id \in Stored :
    /\ pc[id] = "done"
    /\ payments[id].status = COMPLETED
    /\ payments[id].processedAt # {}

\* what the lookups answer for every id a request may name
C10_Lookup ==
  \A id \in RequestIds :
    IF id \in Stored
    THEN /\ getPaymentById(id).result = "ok"
         /\ getPaymentById(id).payment = {payments[id]}
         /\ payments[id].id = id
    ELSE /\ getPaymentById(id).result = "NotFound"
         /\ \A dto \in UpdateDtos : updatePaymentOutcome(id, dto) = "NotFound"

\* C10: getPaymentById and updatePayment of an id that is not stored signal
\* NotFound and change neither the collection nor the file; getPaymentById
\* of a stored id returns that payment
C10_NotFound ==
  [][vars' = vars \/
     /\ C10_Lookup
     /\ C10_Lookup'
     /\ \A id \in RequestIds \ Stored :
          (GetPaymentById(id) \/ \E dto \in UpdateDtos : UpdatePayment(id, dto))
            => /\ payments' = payments
               /\ inflight' = inflight
               /\ file' = file]_vars

\* C10 witness: a payment is stored and mirrored, and a lookup of another id
\* signals NotFound
C10_Witness ==
  /\ 1 \in Stored
  /\ file # "none"
  /\ getPaymentById(1).result = "ok"
  /\ getPaymentById(2).result = "NotFound"
  /\ updatePaymentOutcome(0, [status |-> {CANCELLED}, metadata |-> {},
                              failureReason |-> {}]) = "NotFound"

\* new is old overlaid with upd: the keys of upd carry upd's values, every
\* other key of old keeps its value, and there is no further key
C11_Merged(old, upd, new) ==
  /\ DOMAIN new = (DOMAIN old) \cup (DOMAIN upd)
  /\ \A k \in DOMAIN upd : new[k] = upd[k]
  /\ \A k \in (DOMAIN old) \ (DOMAIN upd) : new[k] = old[k]

\* what the simulator lays over the metadata on success
C11_Overlay ==
  [transactionId |-> "txn_uuid", processorResponse |-> "Payment approved"]

\* C11: a metadata update, by updatePayment or by the simulator's success
\* overlay, leaves the old metadata overlaid with the update; the other steps
\* leave the metadata as it is
C11_MetadataMergeNonDestructive ==
  [][vars' = vars \/ \A id \in Stored :
       /\ \A dto \in MetaUpdateDtos :
            UpdatePayment(id, dto)
              => C11_Merged(MapOf(payments[id].metadata), MapOf(dto.metadata),
                            MapOf(payments'[id].metadata))
       /\ (SimTerminal(id) /\ payments'[id].status = COMPLETED)
            => C11_Merged(MapOf(payments[id].metadata), C11_Overlay,
                          MapOf(payments'[id].metadata))
       /\ ~(\/ \E dto \in MetaUpdateDtos : UpdatePayment(id, dto)
            \/ SimTerminal(id) /\ payments'[id].status = COMPLETED)
            => payments'[id].metadata = payments[id].metadata]_vars

\* C11 witness: {a:1} then {b:2}, or the other way round, on a payment created
\* with orderId, has left all three keys, and the simulator has laid its own
\* two keys over them
C11_Witness ==
  \E id \in Stored :
    /\ payments[id].status = COMPLETED
    /\ payments[id].metadata =
         {[a |-> "1", b |-> "2", orderId |-> "o1",
           transactionId |-> "txn_uuid", processorResponse |-> "Payment approved"]}

\* the filters of the Store's three paginated finders
ListFilters ==
  {<<"none", "">>, <<"customerId", "c1">>, <<"customerId", "c2">>,
   <<"status", PENDING>>, <<"status", PROCESSING>>, <<"status", CANCELLED>>}

\* the finder of the Store that serves a filter
FindWith(f, page, limit, sortBy, sortOrder) ==
  CASE f[1] = "customerId" ->
         findByCustomerIdPaginated(f[2], page, limit, sortBy, sortOrder)
    [] f[1] = "status" ->
         findByStatusPaginated(f[2], page, limit, sortBy, sortOrder)
    [] OTHER -> findPaginated(page, limit, sortBy, sortOrder)

\* the stored payments a filter lets through, in the order of the collection
Filtered(f) ==
  SelectSeq(ArrayFromValues,
            LAMBDA payment :
              CASE f[1] = "customerId" -> payment.customerId = f[2]
                [] f[1] = "status" -> payment.status = f[2]
                [] OTHER -> TRUE)

\* C12: for page >= 1 and limit >= 1 a paginated query returns as data
\* the elements at the zero-based positions (page-1)*limit up to
\* (page-1)*limit+limit-1 of the filtered, sorted set, as far as they exist,
\* and as total the size of the filtered set; past the end data is empty
C12_PageIsSlice ==
  \A f \in ListFilters : \A page \in Pages : \A limit \in Limits :
    \A sortBy \in {{}, {"amount"}} : \A sortOrder \in {{"asc"}} :
      LET first == (page - 1) * limit
          size == Len(Filtered(f))
      IN \A found \in FindWith(f, page, limit, sortBy, sortOrder) :
           /\ found.total = size
           /\ Len(found.data) =
                (IF first >= size THEN 0 ELSE Min(limit, size - first))
           /\ \E sorted \in sort(Filtered(f), Default(sortBy, "createdAt"),
                                 Default(sortOrder, "desc")) :
                \A j \in 1..Len(found.data) : found.data[j] = sorted[first + j]

\* C12 witness: over three payments, the first one cancelled, page 2 of limit 2 by ascending amount
\* holds the one payment of amount 300, and page 4 of limit 1 is empty with
\* total 3
C12_Witness ==
  /\ Cardinality(Stored) = 3
  /\ payments[1].status = CANCELLED
  /\ \E found \in findPaginated(2, 2, {"amount"}, {"asc"}) :
       /\ Len(found.data) = 1
       /\ found.data[1].amount = 300
       /\ found.total = 3
  /\ \E found \in findPaginated(4, 1, {}, {}) :
       found.data = <<>> /\ found.total = 3

\* the Service list operation that serves a filter
ListWith(f, paginationDto) ==
  CASE f[1] = "customerId" ->
         getPaymentsByCustomerIdPaginated(f[2], paginationDto)
    [] f[1] = "status" -> getPaymentsByStatusPaginated(f[2], paginationDto)
    [] OTHER -> getAllPaymentsPaginated(paginationDto)

\* a request for a page in the default sort order
PageRequest(page, limit) ==
  [page |-> page, limit |-> limit, sortBy |-> {}, sortOrder |-> {}]

\* C13: each Service list operation returns meta with page and limit as
\* requested, total as the Store returned it together with the data,
\* totalPages = ceil(total/limit), that is the least n with n*limit >= total,
\* hasNext = (page < totalPages) and hasPrevious = (page > 1)
C13_PageMeta ==
  \A f \in ListFilters : \A page \in Pages : \A limit \in Limits :
    \A r \in ListWith(f, PageRequest(page, limit)) :
      /\ r.meta.page = page
      /\ r.meta.limit = limit
      /\ \E found \in FindWith(f, page, limit, {}, {}) :
           found.data = r.data /\ found.total = r.meta.total
      /\ r.meta.total = Len(Filtered(f))
      /\ r.meta.totalPages * limit >= r.meta.total
      /\ (r.meta.totalPages - 1) * limit < r.meta.total
      /\ r.meta.hasNext = (page < r.meta.totalPages)
      /\ r.meta.hasPrevious = (page > 1)

\* C13 witness: page 2 of limit 1 over three payments of amounts 300, 100 and
\* 200 by ascending amount is the payment of amount 200 with total 3,
\* totalPages 3, hasNext and hasPrevious
C13_Witness ==
  /\ Cardinality(Stored) = 3
  /\ payments[1].amount = 300 /\ payments[2].amount = 100
  /\ payments[3].amount = 200
  /\ payments[2].status = CANCELLED
  /\ \A r \in getAllPaymentsPaginated(
                [page |-> 2, limit |-> 1, sortBy |-> {"amount"},
                 sortOrder |-> {"asc"}]) :
       /\ r.meta = [page |-> 2, limit |-> 1, total |-> 3, totalPages |-> 3,
                    hasNext |-> TRUE, hasPrevious |-> TRUE]
       /\ Len(r.data) = 1
       /\ r.data[1].amount = 200

\* the number of stored payments of a customer, and in a status
CountOfCustomer(c) == Cardinality({id \in Stored : payments[id].customerId = c})
CountInStatus(s) == Cardinality({id \in Stored : payments[id].status = s})

\* the number of items on a page of limit items out of count
ItemsOnPage(page, limit, count) ==
  IF (page - 1) * limit >= count THEN 0
  ELSE Min(limit, count - (page - 1) * limit)

\* C14: listByCustomer(c) returns only payments of customer c and
\* listByStatus(s) only payments whose status is s when the query is made;
\* total is the number of stored payments that match, and the page is cut
\* out of the matching payments, so it is as full as their number allows
C14_FilterBeforePagination ==
  \A page \in Pages : \A limit \in Limits :
    /\ \A c \in {"c1", "c2"} :
         \A r \in getPaymentsByCustomerIdPaginated(c, PageRequest(page, limit)) :
           /\ \A j \in 1..Len(r.data) : r.data[j].customerId = c
           /\ r.meta.total = CountOfCustomer(c)
           /\ Len(r.data) = ItemsOnPage(page, limit, CountOfCustomer(c))
    /\ \A s \in PaymentStatus :
         \A r \in getPaymentsByStatusPaginated(s, PageRequest(page, limit)) :
           /\ \A j \in 1..Len(r.data) : r.data[j].status = s
           /\ r.meta.total = CountInStatus(s)
           /\ Len(r.data) = ItemsOnPage(page, limit, CountInStatus(s))

\* C14 witness: of three payments the first is c2's and the other two c1's,
\* the second has been cancelled; listByCustomer(c1) gives the two of c1 with
\* total 2 and listByStatus(CANCELLED) the second payment with total 1
C14_Witness ==
  /\ Cardinality(Stored) = 3
  /\ payments[1].customerId = "c2"
  /\ payments[2].status = CANCELLED
  /\ \A r \in getPaymentsByCustomerIdPaginated("c1", PageRequest(1, 10)) :
       r.meta.total = 2 /\ Len(r.data) = 2
  /\ \A r \in getPaymentsByStatusPaginated(CANCELLED, PageRequest(1, 1)) :
       r.meta.total = 1 /\ Len(r.data) = 1 /\ r.data[1].id = 2

\* the keys a query can be sorted by
SortKeys ==
  {"amount", "status", "customerId", "paymentMethod", "currency",
   "createdAt", "updatedAt"}

\* the key and the direction a query is sorted by
KeyOf(sortBy) == IF sortBy \in {{k} : k \in SortKeys}
                 THEN CHOOSE k \in SortKeys : sortBy = {k} ELSE "createdAt"
DirectionOf(sortOrder) == IF sortOrder = {"asc"} THEN "asc" ELSE "desc"

\* a before b in the order of a key: numbers and instants by value, strings
\* as JavaScript compares them
KeyLeq(a, b, key) ==
  CASE key = "amount" -> a.amount <= b.amount
    [] key = "createdAt" -> a.createdAt <= b.createdAt
    [] key = "updatedAt" -> a.updatedAt <= b.updatedAt
    [] key = "status" -> Lex(a.status) <= Lex(b.status)
    [] key = "customerId" -> Lex(a.customerId) <= Lex(b.customerId)
    [] key = "paymentMethod" -> Lex(a.paymentMethod) <= Lex(b.paymentMethod)
    [] key = "currency" -> Lex(a.currency) <= Lex(b.currency)

\* a request for the first page, long enough to hold every stored payment
SortRequest(sortBy, sortOrder) ==
  [page |-> 1, limit |-> 10, sortBy |-> sortBy, sortOrder |-> sortOrder]

\* C15: for every filter, sortBy and sortOrder the sequence a query slices
\* from holds the matching payments ordered by the key: non-decreasing for
\* asc, non-increasing for desc; a sortBy that is no key orders by createdAt,
\* a missing sortBy is createdAt and a missing sortOrder is desc
C15_SortedByKey ==
  \A f \in ListFilters : \A sortBy \in SortBys : \A sortOrder \in SortOrders :
    \A r \in ListWith(f, SortRequest(sortBy, sortOrder)) :
      /\ Len(r.data) = Len(Filtered(f))
      /\ \A i, j \in 1..Len(r.data) :
           i < j => IF DirectionOf(sortOrder) = "asc"
                    THEN KeyLeq(r.data[i], r.data[j], KeyOf(sortBy))
                    ELSE KeyLeq(r.data[j], r.data[i], KeyOf(sortBy))

\* C15 witness: the amounts 300, 100, 200 in the order of creation, the
\* first payment created before the last and since cancelled; ascending by
\* amount gives 100, 200, 300, by status the cancelled payment first, and a
\* sortBy that is no key the latest creation first
C15_Witness ==
  /\ Cardinality(Stored) = 3
  /\ payments[1].amount = 300 /\ payments[2].amount = 100
  /\ payments[3].amount = 200
  /\ payments[1].status = CANCELLED
  /\ payments[2].status # CANCELLED /\ payments[3].status # CANCELLED
  /\ payments[1].createdAt < payments[3].createdAt
  /\ \A r \in getAllPaymentsPaginated(SortRequest({"amount"}, {"asc"})) :
       <<r.data[1].amount, r.data[2].amount, r.data[3].amount>>
         = <<100, 200, 300>>
  /\ \A r \in getAllPaymentsPaginated(SortRequest({"status"}, {"asc"})) :
       r.data[1].id = 1
  /\ \A r \in getAllPaymentsPaginated(SortRequest({"bogus"}, {})) :
       r.data[3].id = 1 /\ r.data[1].createdAt = payments[3].createdAt

\* C16: when the process restarts from a file that holds the snapshot of the
\* collection, the new Store returns from findById, for every payment X that
\* was stored, an entity equal to X in every field, createdAt, updatedAt and
\* processedAt being the same instants
C16_RestartRoundTrip ==
  [][vars' = vars \/
     (Restart => \A id \in Stored :
        /\ (findById(id))' = {payments[id]}
        /\ \A p \in (findById(id))' :
             /\ p.createdAt = payments[id].createdAt
             /\ p.updatedAt = payments[id].updatedAt
             /\ p.processedAt = payments[id].processedAt)]_vars

\* C16 witness: a payment with description, metadata, processedAt and
\* failureReason has come back from the file
C16_Witness ==
  \E id \in Stored :
    /\ pc[id] = "rehydrated"
    /\ payments[id].description # {}
    /\ payments[id].metadata # {}
    /\ payments[id].processedAt # {}
    /\ payments[id].failureReason # {}

\* the step in which write w fails
FailedWrite(w) ==
  \/ w.owner = "create" /\ CreateReturnFailed(w.id)
  \/ UpdateReturnFailed(w)
  \/ w.owner = "sim" /\ (SimPersisted1Failed(w.id) \/ SimPersisted2Failed(w.id))

\* C17: when the file write of a Store.create or Store.update fails, the
\* Store operation still returns the entity, so createPayment returns and
\* starts the pipeline, updatePayment returns and the pipeline goes on to its
\* next step; the collection keeps the state the operation gave it and
\* findById and getPaymentById give that state
C17_FailedWriteSwallowed ==
  [][vars' = vars \/ \A w \in inflight :
       FailedWrite(w) =>
         /\ \A error \in WriteErrors :
              repositoryResult(payments[w.id], error) = Returns(payments[w.id])
         /\ payments' = payments
         /\ (findById(w.id))' = {payments[w.id]}
         /\ (getPaymentById(w.id))' = Returns(payments[w.id])
         /\ w.owner = "create" =>
              pc'[w.id] = "delay1" /\ w.id \in activeTimers'
         /\ w.owner = "sim" =>
              \/ pc[w.id] = "saving1" /\ pc'[w.id] = "delay2"
                   /\ w.id \in activeTimers'
              \/ pc[w.id] = "saving2" /\ pc'[w.id] = "done"]_vars

\* C17 witness: every write of the payment's life has failed, the file was
\* never created, and the payment has reached a terminal status and is read
\* back with a patch applied after that
C17_Witness ==
  \E id \in Stored :
    /\ file = "none"
    /\ inflight = {}
    /\ pc[id] = "done"
    /\ payments[id].status \in {COMPLETED, FAILED}
    /\ "note" \in DOMAIN MapOf(payments[id].metadata)
    /\ getPaymentById(id) = Returns(payments[id])

\* the pipeline of id waits on a delay
Waiting(id) == pc[id] \in {"delay1", "delay2"}

\* C18: a step that takes a pending timer away without firing it, which is
\* what cleanup() does, leaves no timer active and changes no payment, no
\* pipeline and no file write; a pipeline whose timer was cancelled stays
\* where it is, sets no timer and writes nothing; and cleanup() can be
\* called in every state, with or without pending timers
C18_CleanupCancelsTimers ==
  /\ [](ENABLED Cleanup)
  /\ [][vars' = vars \/
        /\ (\E id \in activeTimers : id \notin activeTimers' /\ pc'[id] = pc[id])
             => /\ activeTimers' = {}
                /\ payments' = payments
                /\ pc' = pc
                /\ inflight' = inflight
        /\ \A id \in Ids :
             Waiting(id) /\ id \notin activeTimers
               => /\ pc'[id] = pc[id]
                  /\ id \notin activeTimers'
                  /\ WritesOf("sim", id)' = {}
                  /\ id \in Stored => payments'[id].status = payments[id].status
                       \/ \E w \in inflight' \ inflight : w.owner = "update"]_vars

\* C18 witness: the timers of two pipelines, one on its first delay and one
\* on its second, were cancelled together; the second payment keeps the
\* PROCESSING status its pipeline gave it
C18_Witness ==
  /\ Stored = {1, 2}
  /\ pc[1] = "delay1" /\ pc[2] = "delay2"
  /\ activeTimers = {}
  /\ payments[1].status = PENDING
  /\ payments[2].status = PROCESSING

\* the fields of a payment that are fixed at creation
ImmutableFields ==
  {"id", "amount", "currency", "paymentMethod", "customerId", "description",
   "createdAt"}

\* C19: no step (an updatePayment call that is applied or rejected, a
\* pipeline step, a query, cleanup, the completion of a file write) removes
\* a stored payment or changes its id, amount, currency, paymentMethod,
\* customerId, description or createdAt
C19_ImmutableFields ==
  [][vars' = vars \/ \A id \in Stored :
       /\ id \in DOMAIN payments'
       /\ \A f \in ImmutableFields : payments'[id][f] = payments[id][f]]_vars

\* C19 witness: a payment created at instant 0 with a description has been
\* completed by its pipeline, patched with metadata and refunded at a later
\* instant
C19_Witness ==
  \E id \in Stored :
    /\ payments[id].status = REFUNDED
    /\ "note" \in DOMAIN MapOf(payments[id].metadata)
    /\ "transactionId" \in DOMAIN MapOf(payments[id].metadata)
    /\ payments[id].description = {"Test payment"}
    /\ payments[id].createdAt = 0
    /\ payments[id].updatedAt = MaxClock
    /\ pc[id] = "done"

\* the number of stored payments of customer c in status s
CountOfCustomerInStatus(c, s) ==
  Cardinality({id \in Stored :
                 payments[id].customerId = c /\ payments[id].status = s})

\* C20: GET /payments with both customerId and status returns only payments
\* of that customer in that status, and meta.total is their number
C20_BothFiltersApplied ==
  \A queryDto \in QueryDtos :
    queryDto.customerId # {} /\ queryDto.status # {} =>
      \A r \in getAllPayments(queryDto) :
        /\ \A j \in 1..Len(r.data) :
             /\ {r.data[j].customerId} = queryDto.customerId
             /\ {r.data[j].status} = queryDto.status
        /\ \A c \in queryDto.customerId : \A s \in queryDto.status :
             r.meta.total = CountOfCustomerInStatus(c, s)

\* C21: every stored payment whose status is FAILED has a non-empty
\* failureReason
C21_FailedHasReason ==
  \A id \in Stored :
    payments[id].status = FAILED => Truthy(payments[id].failureReason)

\* the statuses that stamp processedAt
Processed == {COMPLETED, FAILED}

\* C22: a payment is created without processedAt; processedAt is set while
\* the status is COMPLETED or FAILED (and REFUNDED, reached from COMPLETED
\* alone), it becomes set only by a step that moves the status to COMPLETED
\* or FAILED, and once set it stays set whatever the status becomes, so it
\* is set iff the status has at some point been COMPLETED or FAILED
C22_ProcessedAtIffProcessed ==
  /\ [](\A id \in Stored :
          payments[id].status \in Processed \cup {REFUNDED}
            => payments[id].processedAt # {})
  /\ [][vars' = vars \/
        /\ \A id \in DOMAIN payments' \ Stored :
             payments'[id].processedAt = {} /\ payments'[id].status = PENDING
        /\ \A id \in Stored :
             /\ payments[id].processedAt # {} => payments'[id].processedAt # {}
             /\ payments[id].processedAt = {} /\ payments'[id].processedAt # {}
                  => payments'[id].status \in Processed
             /\ payments[id].processedAt = {} /\ payments'[id].processedAt = {}
                  => payments'[id].status \notin Processed]_vars

\* C22 witness: a payment that failed and was put back to PENDING keeps its
\* processedAt
C22_Witness ==
  \E id \in Stored :
    /\ payments[id].status = PENDING
    /\ payments[id].processedAt # {}
    /\ payments[id].failureReason # {}

\* the payment's updatedAt after the step is an instant read during the step
Refreshed(id) ==
  /\ now <= payments'[id].updatedAt
  /\ payments'[id].updatedAt <= now'

\* C23: every stored payment has updatedAt >= createdAt; no step lowers a
\* payment's updatedAt; and a step that changes the status or the metadata,
\* or in which updatePayment applies a patch with a status or with metadata
\* (a merge that changes no key included), sets updatedAt to an instant read
\* in that step
C23_UpdatedAtMonotone ==
  /\ [](\A id \in Stored : payments[id].updatedAt >= payments[id].createdAt)
  /\ [][vars' = vars \/ \A id \in Stored :
          /\ payments'[id].updatedAt >= payments[id].updatedAt
          /\ (\/ payments'[id].status # payments[id].status
              \/ payments'[id].metadata # payments[id].metadata)
               => Refreshed(id)
          /\ \A dto \in UpdateDtos :
               /\ dto.status # {} \/ dto.metadata # {}
               /\ updatePaymentOutcome(id, dto) = "ok"
               /\ UpdatePayment(id, dto)
               => Refreshed(id)]_vars

\* C23 witness: a payment created at instant 0 and still PENDING, its
\* pipeline waiting on the first delay, has had metadata merged at a later
\* instant and carries that instant as updatedAt
C23_Witness ==
  \E id \in Stored :
    /\ pc[id] = "delay1"
    /\ payments[id].status = PENDING
    /\ "note" \in DOMAIN MapOf(payments[id].metadata)
    /\ payments[id].createdAt = 0
    /\ payments[id].updatedAt = MaxClock

\* C24: a payment that has a failureReason has one, non-empty, after every
\* step, whatever the step does to its status; the reason changes only to
\* another non-empty reason
C24_FailureReasonNeverCleared ==
  [][vars' = vars \/ \A id \in Stored :
       /\ payments[id].failureReason # {}
            => Truthy(payments'[id].failureReason)
       /\ payments'[id].failureReason # payments[id].failureReason
            => Truthy(payments'[id].failureReason)]_vars

\* C24 witness: a payment that failed with a reason, was retried and is now
\* COMPLETED still has the reason
C24_Witness ==
  \E id \in Stored :
    /\ payments[id].status = COMPLETED
    /\ pc[id] = "done"
    /\ payments[id].failureReason \in {{errorReasons[k]} : k \in ReasonDraws}
    /\ "transactionId" \notin DOMAIN MapOf(payments[id].metadata)

\* the steps of createPayment and of the pipeline it starts, in their order
PipelineOrder ==
  { <<"none", "creating">>, <<"creating", "delay1">>, <<"delay1", "saving1">>,
    <<"delay1", "done">>, <<"saving1", "delay2">>, <<"delay2", "saving2">>,
    <<"saving2", "done">> }

\* the pipeline of id moves from one position to another in this step
Moves(id, from, to) == pc[id] = from /\ pc'[id] = to

\* C25: the pipeline of a payment goes through its positions in order and
\* never back, so it calls Store.update once for PROCESSING and once for the
\* terminal status and no more; a write of the pipeline begins in those two
\* steps only, the first with the stored status PROCESSING and the second
\* with COMPLETED or FAILED; the second delay starts when the first write
\* has completed, and when the terminal write begins no write of the
\* pipeline is in flight
C25_PipelineWritesOrdered ==
  [][vars' = vars \/ \A id \in Ids :
       /\ pc'[id] # pc[id] => <<pc[id], pc'[id]>> \in PipelineOrder
       /\ Cardinality(WritesOf("sim", id)') <= 1
       /\ WritesOf("sim", id) = {} /\ WritesOf("sim", id)' # {}
            => \/ Moves(id, "delay1", "saving1")
                    /\ payments'[id].status = PROCESSING
               \/ Moves(id, "delay2", "saving2")
                    /\ payments'[id].status \in {COMPLETED, FAILED}
       /\ Moves(id, "delay1", "saving1") \/ Moves(id, "delay2", "saving2")
            => WritesOf("sim", id) = {} /\ WritesOf("sim", id)' # {}
       /\ Moves(id, "saving1", "delay2") \/ Moves(id, "saving2", "done")
            => WritesOf("sim", id) # {} /\ WritesOf("sim", id)' = {}]_vars

\* C25 witness: a pipeline has made both writes and ended, and the file
\* holds the terminal state
C25_Witness ==
  \E id \in Stored :
    /\ pc[id] = "done"
    /\ payments[id].status \in {COMPLETED, FAILED}
    /\ WritesOf("sim", id) = {}
    /\ inflight = {}
    /\ file = "fresh"

\* the writes in flight, named by who started them
WriteKeys(writes) == {<<w.owner, w.id, w.slot>> : w \in writes}

\* an updatePayment call for id starts its file write in this step
UpdateApplied(id) ==
  \E k \in WriteKeys(inflight') \ WriteKeys(inflight) :
    k[1] = "update" /\ k[2] = id

\* C26: a pipeline starts, on its first delay, in the step in which
\* createPayment returns and in no other, and every createPayment that
\* returns starts one; updatePayment moves no pipeline and sets no timer; a
\* pipeline that has ended stays ended, and from then on the payment's
\* status changes only in updatePayment calls, so a payment put back to
\* PENDING stays PENDING until such a call
C26_OnePipelinePerPayment ==
  [][vars' = vars \/ \A id \in Ids :
       /\ pc'[id] = "delay1" /\ pc[id] # "delay1" => pc[id] = "creating"
       /\ pc[id] = "creating" /\ pc'[id] # "creating"
            => pc'[id] = "delay1" /\ id \in activeTimers'
       /\ pc[id] = "done" => pc'[id] = "done" /\ id \notin activeTimers'
       /\ UpdateApplied(id)
            => pc' = pc /\ activeTimers' = activeTimers
       /\ pc[id] = "done" /\ id \in Stored
            /\ payments'[id].status # payments[id].status
            => UpdateApplied(id)]_vars

\* C26 witness: a payment failed by its pipeline was put back to PENDING,
\* the call has returned, and no pipeline or timer exists for it
C26_Witness ==
  \E id \in Stored :
    /\ pc[id] = "done"
    /\ payments[id].status = PENDING
    /\ payments[id].processedAt # {}
    /\ inflight = {}
    /\ activeTimers = {}

\* the keys the pipeline writes on success
OverlayKeys == {"transactionId", "processorResponse"}

\* C27: an applied updatePayment(id, {metadata: m}) leaves every key of m in
\* the stored metadata with m's value, wherever the pipeline of id stands;
\* and a step that is not an updatePayment call, so every pipeline step,
\* keeps every key the metadata has with its value, except transactionId
\* and processorResponse, which it may overwrite
C27_NoLostMetadataUpdate ==
  [][vars' = vars \/ \A id \in Stored :
       LET old == MapOf(payments[id].metadata)
           new == MapOf(payments'[id].metadata)
       IN /\ \A dto \in MergeUpdateDtos :
               updatePaymentOutcome(id, dto) = "ok" /\ UpdatePayment(id, dto)
                 => \A k \in DOMAIN MapOf(dto.metadata) :
                      k \in DOMAIN new /\ new[k] = MapOf(dto.metadata)[k]
          /\ ~UpdateApplied(id)
               => \A k \in (DOMAIN old) \ OverlayKeys :
                    k \in DOMAIN new /\ new[k] = old[k]]_vars

\* C27 witness: the pipeline has ended in COMPLETED and the metadata holds
\* the keys of two patches next to the pipeline's own
C27_Witness ==
  \E id \in Stored :
    /\ pc[id] = "done"
    /\ payments[id].status = COMPLETED
    /\ inflight = {}
    /\ \E m \in payments[id].metadata :
         /\ {"a", "b", "transactionId", "processorResponse"} \subseteq DOMAIN m
         /\ m.a = "1" /\ m.b = "2"
         /\ m.transactionId = "txn_uuid"

\* no operation is under way: every createPayment has returned, every
\* pipeline has ended and no file write is in flight
Quiescent ==
  /\ inflight = {}
  /\ \A id \in Ids : pc[id] \in {"none", "done"}

\* C28: once every operation and every file write has completed, the file
\* holds the snapshot of the collection as it stands
C28_FileMirrorConsistent ==
  Quiescent /\ Stored # {} => file = "fresh"

\* the file is there and is not the JSON array of payment records the
\* Store writes: no JSON, JSON that is no array, or an array with a record
\* that no entity can be made from
Malformed(data) ==
  \/ data.kind \in {"unparsable", "object", "null", "number"}
  \/ data.kind = "array" /\ JSONNull \in Range(data.records)

\* C29: when initializeStorage has run, a missing file has left the
\* collection empty and nothing was logged as an error, and a malformed
\* file has left the collection empty and an error was logged
C29_StartupOnBadFile ==
  [][vars' = vars \/ \A w \in inflight :
       w.owner = "load" /\ w \notin inflight' =>
         /\ w.data.kind = "missing"
              => payments' = EmptyMap /\ pc'[0] = "missing"
         /\ Malformed(w.data)
              => payments' = EmptyMap /\ pc'[0] = "failed"]_vars

\* where a pipeline can stand
PipelinePositions ==
  {"none", "creating", "delay1", "saving1", "delay2", "saving2", "recovering",
   "done"}

\* C30: a pipeline never ends in an error: it is at one of its positions,
\* and from the catch block's write it goes to its end whether or not that
\* update raises, without touching the payment again; the step in which an
\* error is caught leaves the payment FAILED with failureReason 'Internal
\* processing error' and processedAt set, and starts the file write of that
\* update
C30_PipelineErrorsCaught ==
  /\ [](\A id \in Ids : pc[id] \in PipelinePositions)
  /\ [][vars' = vars \/ \A id \in Ids :
          /\ pc[id] # "recovering" /\ pc'[id] = "recovering"
               => /\ pc[id] \in {"delay1", "saving1", "delay2", "saving2"}
                  /\ id \in Stored
                  /\ payments'[id].status = FAILED
                  /\ payments'[id].failureReason = {"Internal processing error"}
                  /\ payments'[id].processedAt # {}
                  /\ \E w \in WritesOf("sim", id)' : w.fresh
                  /\ id \notin activeTimers'
          /\ pc[id] = "recovering" /\ pc'[id] # "recovering"
               => /\ pc'[id] = "done"
                  /\ payments' = payments
                  /\ WritesOf("sim", id)' = {}
                  /\ id \notin activeTimers'
          /\ pc[id] = "recovering" /\ pc'[id] = "recovering"
               => WritesOf("sim", id)' # {}]_vars

\* C30 witness: the terminal update of a pipeline raised an error after the
\* payment had been COMPLETED; the catch block has made it FAILED with the
\* internal reason, its write has completed and the pipeline has ended
C30_Witness ==
  \E id \in Stored :
    /\ pc[id] = "done"
    /\ payments[id].status = FAILED
    /\ payments[id].failureReason = {"Internal processing error"}
    /\ "transactionId" \in DOMAIN MapOf(payments[id].metadata)
    /\ inflight = {}
    /\ file = "fresh"

\* the positions at which a pipeline has a step to take
PipelineSteps == {"delay1", "saving1", "delay2", "saving2", "recovering"}

\* the pipeline of payment id takes a step
PipelineStep(id) == pc[id] \in PipelineSteps /\ pc'[id] # pc[id]

\* C31: a step of the pipeline of payment X, the catch block included, adds
\* no payment and leaves every field of every other stored payment as it
\* is; a pipeline that does not find X after its first delay ends there,
\* with no change of the collection and no file write
C31_PipelineChangesOwnPayment ==
  [][vars' = vars \/ \A X \in Ids :
       PipelineStep(X) =>
         /\ DOMAIN payments' = DOMAIN payments
         /\ \A Y \in Stored \ {X} : payments'[Y] = payments[Y]
         /\ WriteKeys(inflight') \ WriteKeys(inflight) \subseteq {<<"sim", X, 1>>}
         /\ pc[X] = "delay1" /\ X \notin Stored
              => /\ pc'[X] = "done"
                 /\ payments' = payments
                 /\ inflight' = inflight
                 /\ file' = file]_vars

\* C31 witness: the pipeline of payment 1 has gone through its catch block
\* and ended with payment 1 FAILED, next to a payment 2 that was stored the
\* whole time and is PENDING
C31_Witness ==
  /\ Stored = {1, 2}
  /\ pc[1] = "done"
  /\ payments[1].failureReason = {"Internal processing error"}
  /\ payments[2].status = PENDING
  /\ pc[2] = "delay1"

\* C32: once cleanup() has returned, a pipeline that was under way at the
\* call takes no step that changes a payment or starts a file write,
\* wherever it stood at the call
C32_NoPipelineWriteAfterCleanup ==
  [][vars' = vars \/ \A id \in pc[0] :
       PipelineStep(id) =>
         /\ payments' = payments
         /\ WriteKeys(inflight') \subseteq WriteKeys(inflight)]_vars

\* C33: failureReason is set only by a transition to FAILED that carries a
\* reason: a step that gives a payment a failureReason, or another one,
\* leaves it FAILED, so that a payment that has never been FAILED has none
C33_FailureReasonOnlyWhenFailed ==
  [][vars' = vars \/ \A id \in Stored :
       payments'[id].failureReason # payments[id].failureReason
         => payments'[id].status = FAILED]_vars

\* the ids of the records of a well-formed file
RecordIds(data) == {data.records[i].id : i \in DOMAIN data.records}

\* C34: no payment of the file the process starts on is lost: when the load
\* completes, each record of the file is in the collection as the entity
\* read from it, whatever requests were served in the meantime; and while
\* the file holds the snapshot of the collection as it stands, written by a
\* request served before the load has completed, the payments of the file
\* at start are in that snapshot
C34_RehydrationLosesNothing ==
  /\ [](\A w \in inflight :
          w.owner = "load" /\ file = "fresh" => RecordIds(w.data) \subseteq Stored)
  /\ [][vars' = vars \/ \A w \in inflight :
          w.owner = "load" /\ w \notin inflight' =>
            \A i \in DOMAIN w.data.records :
              /\ w.data.records[i].id \in DOMAIN payments'
              /\ payments'[w.data.records[i].id]
                   = PaymentFromData(w.data.records[i])]_vars

\* C35: the pipeline's first write moves the payment from PENDING to
\* PROCESSING: in the step in which the pipeline, back from its first
\* delay, applies PROCESSING, the payment is PENDING
C35_FirstWriteFromPending ==
  [][vars' = vars \/ \A id \in Stored :
       pc[id] = "delay1" /\ pc'[id] = "saving1"
         => payments[id].status = PENDING /\ payments'[id].status = PROCESSING]_vars

\* C36: updatePayment checks the transition and assigns the status in one
\* step, in which no pipeline moves: every change of status made by an
\* updatePayment call goes along an edge of the table from the status the
\* payment has in the state the call is applied to, wherever the pipeline
\* stands
C36_UpdateChecksCurrentStatus ==
  [][vars' = vars \/ \A id \in Stored :
       UpdateApplied(id) =>
         /\ pc' = pc
         /\ payments'[id].status # payments[id].status
              => <<payments[id].status, payments'[id].status>> \in TransitionTable]_vars

\* C36 witness: the pipeline has COMPLETED the payment and an updatePayment
\* call, checked against that status, has REFUNDED it
C36_Witness ==
  \E id \in Stored :
    /\ payments[id].status = REFUNDED
    /\ "transactionId" \in DOMAIN MapOf(payments[id].metadata)
    /\ WritesOf("update", id) # {}

\* C37: a payment loaded from the file at process start gets no pipeline: the
\* restart leaves every loaded payment without a pipeline and without a
\* timer, and from then on no timer is set and no pipeline write is started
\* for it, and its status, PENDING and PROCESSING included, changes only in
\* the step of an updatePayment call
C37_RehydratedGetNoPipeline ==
  [][vars' = vars \/
       /\ Restart => \A id \in DOMAIN payments' :
                       pc'[id] = "rehydrated" /\ id \notin activeTimers'
       /\ \A id \in Stored :
            pc[id] = "rehydrated" =>
              /\ pc'[id] = "rehydrated"
              /\ id \notin activeTimers'
              /\ WritesOf("sim", id)' = {}
              /\ payments'[id].status # payments[id].status
                   => UpdateApplied(id)]_vars

\* C37 witness: a payment that was PROCESSING in the file at the restart is
\* still PROCESSING, without pipeline or timer, when the clock has moved on
\* and the write of an updatePayment call that left its status alone is in
\* flight
C37_Witness ==
  \E id \in Stored :
    /\ pc[id] = "rehydrated"
    /\ payments[id].status = PROCESSING
    /\ payments[id].processedAt = {}
    /\ now = MaxClock
    /\ payments[id].updatedAt = MaxClock
    /\ "note" \in DOMAIN MapOf(payments[id].metadata)
    /\ WritesOf("update", id) # {}
    /\ activeTimers = {}

\* a request for a page in a given sort order
SortedPageRequest(page, limit, sortBy, sortOrder) ==
  [page |-> page, limit |-> limit, sortBy |-> sortBy, sortOrder |-> sortOrder]

\* the places, as <<page, position>>, at which the payment id stands on the
\* pages 1..totalPages cut out of the sorted array
PlacesOf(id, sorted, limit) ==
  {place \in (1..MathCeilDiv(Len(sorted), limit)) \X (1..limit) :
     LET data == paginateResults(sorted, place[1], limit).data
     IN place[2] <= Len(data) /\ data[place[2]].id = id}

\* C38: for page >= 1 and limit >= 1 the meta of a page agrees with its
\* data: hasNext holds iff page*limit < total, which is iff the next page
\* has an item; the page has min(limit, max(0, total - (page-1)*limit))
\* items; and over one state of the Store, in which the engine sorts the
\* same array the same way at every request, the pages 1..totalPages are
\* pages the finder returns and hold every matching payment exactly once
C38_PagesAgreeWithMeta ==
  \A f \in ListFilters : \A limit \in Limits :
    \A sortBy \in {{}, {"amount"}} : \A sortOrder \in {{"asc"}} :
      LET total == Len(Filtered(f))
      IN /\ \A page \in Pages :
              \A r \in ListWith(f, SortedPageRequest(page, limit, sortBy, sortOrder)) :
                /\ r.meta.total = total
                /\ r.meta.hasNext = (page * limit < total)
                /\ r.meta.hasNext =
                     (\E next \in ListWith(f, SortedPageRequest(
                                    page + 1, limit, sortBy, sortOrder)) :
                        next.data # <<>>)
                /\ Len(r.data) = Min(limit, Max(0, total - (page - 1) * limit))
         /\ \A sorted \in sort(Filtered(f), Default(sortBy, "createdAt"),
                               Default(sortOrder, "desc")) :
              /\ \A page \in 1..MathCeilDiv(total, limit) :
                   \E found \in FindWith(f, page, limit, sortBy, sortOrder) :
                     found = paginateResults(sorted, page, limit)
              /\ \A i \in 1..total :
                   Cardinality(PlacesOf(sorted[i].id, sorted, limit)) = 1

\* C38 witness: three payments, the first two created at the same instant;
\* by limit 2 the first page is full and has a next page, the second page
\* holds the one payment left and has none, and the third page is empty
C38_Witness ==
  /\ Cardinality(Stored) = 3
  /\ payments[1].createdAt = payments[2].createdAt
  /\ \A r \in getAllPaymentsPaginated(PageRequest(1, 2)) :
       Len(r.data) = 2 /\ r.meta.hasNext /\ r.meta.totalPages = 2
  /\ \A r \in getAllPaymentsPaginated(PageRequest(2, 2)) :
       Len(r.data) = 1 /\ ~r.meta.hasNext
  /\ \A r \in getAllPaymentsPaginated(PageRequest(3, 2)) :
       r.data = <<>> /\ ~r.meta.hasNext
  /\ Cardinality({r.data : r \in getAllPaymentsPaginated(PageRequest(1, 2))}) > 1

\* the patches that carry neither status nor metadata
BarePatches == {dto \in UpdateDtos : dto.status = {} /\ dto.metadata = {}}

\* C39: updatePayment with a patch that has neither status nor metadata,
\* empty or with a failureReason alone, succeeds on a stored payment, leaves
\* the collection with every field of every payment as it is, updatedAt and
\* failureReason included, reads no clock, moves no pipeline, and starts a
\* file write of the collection
C39_BarePatchRewritesOnly ==
  /\ [](\A id \in Stored : \A dto \in BarePatches :
          updatePaymentOutcome(id, dto) = "ok")
  /\ [][vars' = vars \/
          \A id \in RequestIds : \A dto \in BarePatches :
            UpdatePayment(id, dto) =>
              /\ id \in Stored
              /\ payments' = payments
              /\ now' = now
              /\ pc' = pc /\ activeTimers' = activeTimers
              /\ UpdateApplied(id)
              /\ \E w \in WritesOf("update", id)' : w.fresh]_vars

\* C39 witness: the file write of an updatePayment call is in flight with
\* the snapshot of the collection as it stands, and the payment is as
\* createPayment made it: no status, metadata or failureReason has been
\* applied to it
C39_Witness ==
  \E id \in Stored :
    /\ \E w \in WritesOf("update", id) : w.fresh
    /\ payments[id].status = PENDING
    /\ payments[id].processedAt = {}
    /\ payments[id].failureReason = {}
    /\ payments[id].metadata = {}
    /\ pc[id] = "delay1"

\* the failure rate as the sum of its parts, in hundredths
RateOf(payment) ==
  10 + (IF payment.amount > 10000 THEN 10 ELSE 0)
     + (IF payment.paymentMethod = CREDIT_CARD THEN 5 ELSE 0)

====
